---- MODULE Spec2Model ----
(***************************************************************************)
(* Model of the Windsurf bridge: the HTTP surface of src/src/server.ts,    *)
(* the response builders of src/src/plugin.ts, the credential resolver of  *)
(* src/unnamed/part_002 (plugin/auth.ts) and the Cascade client            *)
(* (plugin/grpc-client.ts, listed in src/docs/REVERSE_ENGINEERING.md).     *)
(*                                                                         *)
(* Each request handler is a process; it yields to the other handler, to   *)
(* the clock and to the host OS exactly at the awaits of the code.         *)
(***************************************************************************)
EXTENDS Integers, Sequences, FiniteSets, TLC

(***************************************************************************)
(* Bounds of the model and constants of the program                        *)
(***************************************************************************)

\* the two concurrent chat-completion requests that are followed
Handlers == {1, 2}

\* the wall clock (whole seconds) is followed for this many ticks
MaxClock == 1

POLL_MAX_ATTEMPTS == 60

\* HTTP status codes written by server.ts
HTTP_OK == 200
HTTP_UNAVAILABLE == 503
HTTP_INTERNAL == 500

\* grpc-status trailer values the vendor can answer with ('0' is OK)
GrpcStatuses == {0, 13}

\* planner texts the vendor can return in a trajectory step
FinalJson == "{\"action\":\"final\",\"content\":\"done\"}"
ToolCallJson == "{\"action\":\"tool_call\",\"tool_calls\":[{\"name\":\"read_file\",\"arguments\":{}}]}"
VendorTexts == {"hello", FinalJson, ToolCallJson}

VARIABLES
    clock,          \* Math.floor(Date.now() / 1000)
    requestCounter, \* grpc-client.ts: let requestCounter
    vendorNextId,   \* the vendor's next fresh cascade id
    pc,             \* per handler: the await it is suspended at
    req,            \* per handler: the parsed request body
    http,           \* per handler: the Response returned by fetch
    sse,            \* per handler: the events enqueued on the stream controller
    closed,         \* per handler: number of controller.close() calls
    gen,            \* per handler: the locals of streamChatGenerator and its RPC log
    client,         \* per handler: whether the HTTP client is still connected
    probe           \* the argument and the result of a function applied on its own

vars == <<clock, requestCounter, vendorNextId,
          pc, req, http, sse, closed, gen, client, probe>>

(***************************************************************************)
(* plugin/auth.ts                                                          *)
(***************************************************************************)

\* What `ps` shows: no language server at all, one whose command line has no
\* --csrf_token, one with a token but no discoverable port, or a usable one.
OsProcStates == {"none", "nocsrf", "noport", "ok"}

\* getLanguageServerProcesses keeps only lines with a pid and a csrf token
HasProcessEntry(proc) == proc \in {"noport", "ok"}

\* getCSRFToken: "ok" or the code of the WindsurfError it throws
getCSRFToken(proc) == IF HasProcessEntry(proc) THEN "ok" ELSE "NOT_RUNNING"

\* getPort: "ok" or the code of the WindsurfError it throws
getPort(proc) ==
    IF ~HasProcessEntry(proc) THEN "NOT_RUNNING"
    ELSE IF proc = "noport" THEN "NOT_RUNNING"
    ELSE "ok"

\* getApiKey: "ok" or the code of the WindsurfError it throws
getApiKey(stored) == IF stored THEN "ok" ELSE "API_KEY_MISSING"

\* getCredentials evaluates csrfToken, port, apiKey in this order; the first
\* throw wins (getWindsurfVersion never throws)
getCredentials(proc, stored) ==
    IF getCSRFToken(proc) # "ok" THEN getCSRFToken(proc)
    ELSE IF getPort(proc) # "ok" THEN getPort(proc)
    ELSE getApiKey(stored)

isWindsurfRunning(proc) == getCSRFToken(proc) = "ok" /\ getPort(proc) = "ok"

(***************************************************************************)
(* Requests and responses                                                  *)
(***************************************************************************)

\* The facts of a request body the handlers branch on: stream === true, a
\* non-empty tools array, a messages array, a tool / assistant-tool_calls
\* message among the messages, and the model string.
Request(stream, tools, toolMessages, hasMessages, model) ==
    [stream |-> stream, tools |-> tools, toolMessages |-> toolMessages,
     hasMessages |-> hasMessages, model |-> model]

\* The request bodies that are followed: each of the four paths with
\* messages (plain or planned, by a tools array or by a tool message; SSE or
\* JSON; with and without a model), and the bodies without messages ({}
\* stands for a body that is not JSON: req.json().catch(() => ({}))).
Requests ==
    {Request(TRUE, FALSE, FALSE, TRUE, "gemini-3-0-pro-high"),
     Request(FALSE, FALSE, FALSE, TRUE, ""),
     Request(TRUE, TRUE, FALSE, TRUE, ""),
     Request(FALSE, FALSE, TRUE, TRUE, "gemini-3-0-pro-high"),
     Request(FALSE, FALSE, FALSE, FALSE, ""),
     Request(TRUE, FALSE, FALSE, FALSE, ""),
     Request(TRUE, TRUE, FALSE, FALSE, ""),
     Request(FALSE, TRUE, FALSE, FALSE, "")}

NoRequest ==
    [stream |-> FALSE, tools |-> FALSE, hasMessages |-> FALSE,
     toolMessages |-> FALSE, model |-> ""]

NoId == <<"", 0>>

\* One SSE event, or one JSON body; every record has all the fields.
Blank ==
    [type |-> "none", id |-> NoId, created |-> 0, model |-> "", content |-> "",
     finish |-> "null", tool_calls |-> <<>>]

DoneEvent == [Blank EXCEPT !.type = "done"]

\* data: {"error": {"message": ...}}
ErrorEvent == [Blank EXCEPT !.type = "error"]

NoResponse == [status |-> 0, kind |-> "none", body |-> Blank]

\* models.ts getDefaultModel
getDefaultModel == "claude-3.5-sonnet"

\* const requestedModel = request.model || getDefaultModel()
requestedModel(r) == IF r.model = "" THEN getDefaultModel ELSE r.model

\* server.ts: hasToolsField || hasToolMessages
UsesToolPlanner(r) == r.tools \/ r.toolMessages

\* plugin.ts openAIError(status, message, details)
openAIError(status) ==
    [status |-> status, kind |-> "json", body |-> [Blank EXCEPT !.type = "openai_error"]]

\* new Response(stream, {status: 200, 'Content-Type': 'text/event-stream'})
SseResponse == [status |-> HTTP_OK, kind |-> "sse", body |-> Blank]

\* new Response(JSON.stringify(payload), {status: 200})
JsonResponse(payload) == [status |-> HTTP_OK, kind |-> "json", body |-> payload]

(***************************************************************************)
(* plugin.ts: tool planner and OpenAI-shaped payloads                      *)
(***************************************************************************)

NoPlan == [action |-> "null", content |-> "", tool_calls |-> <<>>]

\* A JSON value as the code holds it: its JavaScript type and its JSON text
JsonValue(type, json) == [type |-> type, json |-> json]

\* further planner texts: prose around a final plan; a call without
\* arguments; a call whose arguments are a string holding JSON; a call whose
\* arguments are a plain string; a plan whose tool_calls is no array; an
\* unknown action; a final plan whose content is no string; one
\* <tool_call> tag (the braces parse as JSON, so the tag is never looked
\* at); two <tool_call> tags (the braces do not parse, the tags are read);
\* a closing brace before the opening one
ProseFinalJson == "Sure. {\"action\":\"final\",\"content\":\"done\"} Bye."
NoArgsCallJson == "{\"action\":\"tool_call\",\"tool_calls\":[{\"name\":\"list\"}]}"
JsonStringArgsCallJson ==
    "{\"action\":\"tool_call\",\"tool_calls\":[{\"name\":\"read_file\",\"arguments\":\"{\\\"a\\\":1}\"}]}"
PlainStringArgsCallJson ==
    "{\"action\":\"tool_call\",\"tool_calls\":[{\"name\":\"echo\",\"arguments\":\"abc\"}]}"
NoArrayCallJson == "{\"action\":\"tool_call\",\"tool_calls\":\"read_file\"}"
OtherActionJson == "{\"action\":\"think\"}"
NumberFinalJson == "{\"action\":\"final\",\"content\":42}"
OneTagText == "<tool_call>read_file {\"path\":\"a\"}"
TwoTagsText == "<tool_call>list {} <tool_call>read_file {\"path\":\"a\"}"
BracesReversedText == "} hello {"

\* tool_call plans whose tool_calls array is empty, has no entry with a
\* string name (no name, a number, a null entry), or has one entry with a
\* string name among such entries
EmptyCallsJson == "{\"action\":\"tool_call\",\"tool_calls\":[]}"
NamelessCallsJson ==
    "{\"action\":\"tool_call\",\"tool_calls\":[{\"arguments\":{}},{\"name\":5},null]}"
MixedCallsJson ==
    "{\"action\":\"tool_call\",\"tool_calls\":[{\"name\":5},{\"name\":\"list\"}]}"

PlannerTexts ==
    VendorTexts \cup
    {ProseFinalJson, NoArgsCallJson, JsonStringArgsCallJson, PlainStringArgsCallJson,
     NoArrayCallJson, OtherActionJson, NumberFinalJson, OneTagText, TwoTagsText,
     BracesReversedText, EmptyCallsJson, NamelessCallsJson, MixedCallsJson}

\* normalizeToolArguments on the arguments of PlannerTexts: null or undefined
\* gives {}, a string that looks like JSON and parses gives the parsed
\* value, any other value is kept
normalizeToolArguments(raw) ==
    CASE raw.type \in {"undefined", "null"} -> JsonValue("object", "{}")
      [] raw = JsonValue("string", "{\"a\":1}") -> JsonValue("object", "{\"a\":1}")
      [] OTHER -> raw

ToolCall(name, arguments) == [name |-> name, arguments |-> arguments]

\* an entry of a parsed tool_calls array: its name and arguments as JSON
\* values (a null entry has neither)
CallEntry(name, arguments) == [name |-> name, arguments |-> arguments]

\* t && typeof t.name === 'string'
HasStringName(t) == t.name.type = "string"

\* parsed.tool_calls.filter(...).map(t => ({name, arguments: normalize(...)}))
PlannedCalls(entries) ==
    LET named == SelectSeq(entries, HasStringName) IN
    [i \in 1..Len(named) |->
        ToolCall(named[i].name.json, normalizeToolArguments(named[i].arguments))]

\* parseToolCallPlan on the planner texts of VendorTexts: the substring from
\* the first '{' to the last '}' is JSON-parsed and accepted as a final or a
\* tool_call plan; a text with no brace gives null.
parseToolCallPlan(output) ==
    LET Calls(calls) == [NoPlan EXCEPT !.action = "tool_call", !.tool_calls = calls] IN
    CASE output \in {FinalJson, ProseFinalJson} ->
            [NoPlan EXCEPT !.action = "final", !.content = "done"]
      [] output = ToolCallJson ->
            Calls(<<ToolCall("read_file", normalizeToolArguments(JsonValue("object", "{}")))>>)
      [] output = NoArgsCallJson ->
            Calls(<<ToolCall("list", normalizeToolArguments(JsonValue("undefined", "")))>>)
      [] output = JsonStringArgsCallJson ->
            Calls(<<ToolCall("read_file",
                             normalizeToolArguments(JsonValue("string", "{\"a\":1}")))>>)
      [] output = PlainStringArgsCallJson ->
            Calls(<<ToolCall("echo", normalizeToolArguments(JsonValue("string", "abc")))>>)
      [] output = TwoTagsText ->
            Calls(<<ToolCall("list", normalizeToolArguments(JsonValue("object", "{}"))),
                    ToolCall("read_file",
                             normalizeToolArguments(JsonValue("object", "{\"path\":\"a\"}")))>>)
      [] output = EmptyCallsJson -> Calls(PlannedCalls(<<>>))
      [] output = NamelessCallsJson ->
            Calls(PlannedCalls(
                <<CallEntry(JsonValue("undefined", ""), JsonValue("object", "{}")),
                  CallEntry(JsonValue("number", "5"), JsonValue("undefined", "")),
                  CallEntry(JsonValue("undefined", ""), JsonValue("undefined", ""))>>))
      [] output = MixedCallsJson ->
            Calls(PlannedCalls(
                <<CallEntry(JsonValue("number", "5"), JsonValue("undefined", "")),
                  CallEntry(JsonValue("string", "list"), JsonValue("undefined", ""))>>))
      [] OTHER -> NoPlan

\* chunks.join('')
RECURSIVE JoinChunks(_)
JoinChunks(chunks) ==
    IF chunks = <<>> THEN ""
    ELSE IF Len(chunks) = 1 THEN chunks[1]
    ELSE chunks[1] \o JoinChunks(Tail(chunks))

\* createOpenAICompatibleResponse(id, model, content, true, finishReason):
\* the timestamp is read from the clock at every call
createOpenAICompatibleResponse(id, model, content, finishReason, now) ==
    [type |-> "chunk", id |-> id, created |-> now, model |-> model,
     content |-> content, finish |-> finishReason, tool_calls |-> <<>>]

\* createOpenAICompatibleResponse(id, model, content, false, finishReason)
createCompletion(id, model, content, finishReason, now) ==
    [type |-> "completion", id |-> id, created |-> now, model |-> model,
     content |-> content,
     finish |-> IF finishReason = "null" THEN "stop" ELSE finishReason,
     tool_calls |-> <<>>]

\* const responseId = `chatcmpl-${crypto.randomUUID()}`: one fresh id per call
responseId(h) == <<"chatcmpl", h>>

\* `windsurf-tools-${Date.now()}`
toolsId(now) == <<"windsurf-tools", now>>

\* the payload that passes the planned arguments on as they are
SerializeArguments_AsPlanned(arguments) == arguments

\* JSON.stringify(tc.arguments ?? {}): the JSON text as a string (a string
\* value is quoted)
SerializeArguments(arguments) ==
    CASE arguments.type \in {"undefined", "null"} -> JsonValue("string", "{}")
      [] arguments.type = "string" -> JsonValue("string", "\"" \o arguments.json \o "\"")
      [] OTHER -> JsonValue("string", arguments.json)

\* plan.tool_calls.map(tc => ({function: {name, arguments: JSON.stringify(...)}}))
MapToolCalls(calls) ==
    [i \in 1..Len(calls) |->
        ToolCall(calls[i].name, SerializeArguments(calls[i].arguments))]

\* createStreamingResponse, for await body: one chunk per yielded text
PlainContentEvents(h, r, chunk, now) ==
    <<createOpenAICompatibleResponse(responseId(h), requestedModel(r), chunk, "null", now)>>

\* the ending without the stop chunk
PlainFinalEvents_NoStop(h, r, now) == <<DoneEvent>>

\* createStreamingResponse after the loop: stop chunk, [DONE]
PlainFinalEvents(h, r, now) ==
    <<createOpenAICompatibleResponse(responseId(h), requestedModel(r), "", "stop", now),
      DoneEvent>>

\* createStreamingResponse catch: the error event only
PlainErrorEvents == <<ErrorEvent>>

\* handleToolPlanningStream try: one chunk decided by the plan, then [DONE]
ToolStreamEvents(r, content, now) ==
    LET plan == parseToolCallPlan(content) IN
    IF plan.action = "tool_call"
    THEN <<[type |-> "chunk", id |-> toolsId(now), created |-> now,
            model |-> requestedModel(r), content |-> "",
            finish |-> "tool_calls", tool_calls |-> MapToolCalls(plan.tool_calls)],
           DoneEvent>>
    ELSE <<[type |-> "chunk", id |-> toolsId(now), created |-> now,
            model |-> requestedModel(r),
            content |-> IF plan.action = "final" THEN plan.content ELSE content,
            finish |-> "stop", tool_calls |-> <<>>],
           DoneEvent>>

\* handleToolPlanningStream catch: the error event, then [DONE]
ToolErrorEvents == <<ErrorEvent, DoneEvent>>

\* handleToolPlanning / buildToolCallPayload
ToolPayload(r, content, now) ==
    LET plan == parseToolCallPlan(content) IN
    IF plan.action = "tool_call"
    THEN [type |-> "completion", id |-> toolsId(now), created |-> now,
          model |-> requestedModel(r), content |-> "",
          finish |-> "tool_calls", tool_calls |-> MapToolCalls(plan.tool_calls)]
    ELSE [type |-> "completion", id |-> toolsId(now), created |-> now,
          model |-> requestedModel(r),
          content |-> IF plan.action = "final" THEN plan.content ELSE content,
          finish |-> "stop", tool_calls |-> <<>>]

\* server.ts catch (err): openAIError(500, 'Chat completion failed', msg)
CatchStatus(code) == HTTP_INTERNAL

(***************************************************************************)
(* plugin/grpc-client.ts: the Cascade client                               *)
(***************************************************************************)

\* What grpcUnary settles with: a rejection (transport failure), or the
\* grpc-status trailer with the decoded body (the cascade id of a
\* StartCascadeResponse, 0 for none; the planner text extracted from a
\* GetCascadeTrajectoryStepsResponse, "" for none).
GrpcResult(transport, status, cascadeId, text) ==
    [transport |-> transport, status |-> status, cascadeId |-> cascadeId, text |-> text]

Rejected == GrpcResult(TRUE, 0, 0, "")

StartResults(fresh) ==
    {Rejected} \cup {GrpcResult(FALSE, s, id, "") : s \in GrpcStatuses, id \in {0, fresh}}

SendResults == {Rejected} \cup {GrpcResult(FALSE, s, 0, "") : s \in GrpcStatuses}

PollResults ==
    {Rejected, GrpcResult(FALSE, 13, 0, ""), GrpcResult(FALSE, 13, 0, "hello")} \cup
    {GrpcResult(FALSE, 0, 0, t) : t \in {""} \cup VendorTexts}

\* StartOutcome without the test of the extracted cascade id
StartOutcome_NoIdCheck(res) ==
    IF res.transport THEN "CONNECTION_FAILED"
    ELSE IF res.status # 0 THEN "STREAM_ERROR"
    ELSE "ok"

\* streamChatGenerator, step 1: "ok" or the code of the WindsurfError thrown
StartOutcome(res) ==
    IF res.transport THEN "CONNECTION_FAILED"
    ELSE IF res.status # 0 THEN "STREAM_ERROR"
    ELSE IF res.cascadeId = 0 THEN "STREAM_ERROR"
    ELSE "ok"

\* SendOutcome without the test of the grpc-status trailer
SendOutcome_IgnoresStatus(res) ==
    IF res.transport THEN "STREAM_ERROR"
    ELSE "ok"

\* streamChatGenerator, step 2: "ok" or the code of the WindsurfError thrown
SendOutcome(res) ==
    IF res.transport THEN "STREAM_ERROR"
    ELSE IF res.status # 0 THEN "STREAM_ERROR"
    ELSE "ok"

\* a poll whose rejection is rethrown as the Send's is
PollOutcome_Rethrows(res) == IF res.transport THEN "STREAM_ERROR" ELSE "ok"

\* streamChatGenerator, step 3: grpcUnary(...).catch(() => null) turns a
\* rejection into null, so the call itself never throws
PollOutcome(res) == "ok"

\* streamChatGenerator, step 3: the text this poll makes the generator yield,
\* "" when the loop continues (if (!pollRes || pollRes.status !== '0') continue)
PollText(res) ==
    IF res.transport \/ res.status # 0 THEN "" ELSE res.text

\* the loop test off by one: attempt <= POLL_MAX_ATTEMPTS
PollLoopGuard_OffByOne(attempt) == attempt <= POLL_MAX_ATTEMPTS

\* for (let attempt = 0; attempt < POLL_MAX_ATTEMPTS; attempt++)
PollLoopGuard(attempt) == attempt < POLL_MAX_ATTEMPTS

\* the error thrown after the loop
PollTimeoutCode == "STREAM_ERROR"

GenInit ==
    [cascadeId |-> 0, attempt |-> 0, counter |-> 0,
     startCalls |-> 0, sendCalls |-> 0,
     sendId |-> 0, sendCounter |-> 0, pollIds |-> {},
     startRes |-> "none", sendRes |-> "none",
     err |-> "none", chunks |-> <<>>]

\* a session kept across completions: the id of a cascade another
\* completion has started is sent instead of the own one
SendCascadeId_Shared(h, id) ==
    IF \E g \in Handlers \ {h} : gen[g].cascadeId # 0
    THEN gen[CHOOSE g \in Handlers \ {h} : gen[g].cascadeId # 0].cascadeId
    ELSE id

\* the cascade id written into the SendUserCascadeMessage request: the local
\* cascadeId just extracted from this completion's StartCascade response
SendCascadeId(h, id) == id

\* a Send whose metadata is encoded anew
SendMetadataCounter_Reencoded(h) == requestCounter + 1

\* the request_id in the metadata of SendUserCascadeMessage: the metadata
\* local encoded once, before StartCascade
SendMetadataCounter(h) == gen[h].counter

\* the cascade id written into pollBody: the same local
PollCascadeId(h) == gen[h].cascadeId

\* how a settled RPC is recorded in the log
ResultKind(res) ==
    IF res.transport THEN "transport"
    ELSE IF res.status # 0 THEN "status"
    ELSE "ok"

(***************************************************************************)
(* The handlers                                                            *)
(***************************************************************************)

\* the client of h is connected; when it goes, the record keeps whether the
\* generator was in its poll loop, the value of the loop variable and the
\* number of events written at that moment
Connected == [gone |-> FALSE, polling |-> FALSE, at |-> 0, written |-> 0]

\* no function is applied on its own
NoProbe == [fn |-> "none"]

\* the server after Bun.serve, before any request
Idle ==
    /\ clock = 0
    /\ requestCounter = 0
    /\ vendorNextId = 1
    /\ pc = [h \in Handlers |-> "idle"]
    /\ req = [h \in Handlers |-> NoRequest]
    /\ http = [h \in Handlers |-> NoResponse]
    /\ sse = [h \in Handlers |-> <<>>]
    /\ closed = [h \in Handlers |-> 0]
    /\ gen = [h \in Handlers |-> GenInit]
    /\ client = [h \in Handlers |-> Connected]

Init == Idle /\ probe = NoProbe

\* the events the catch block of the stream's start() enqueues before close()
StreamErrorEvents(r) ==
    IF UsesToolPlanner(r) THEN ToolErrorEvents ELSE PlainErrorEvents

\* a catch block of start() that writes its events and leaves the controller
\* open
Thrown_NeverCloses(h, r, code) ==
    /\ pc' = [pc EXCEPT ![h] = "done"]
    /\ IF r.stream
       THEN /\ http' = [http EXCEPT ![h] = SseResponse]
            /\ sse' = [sse EXCEPT ![h] = @ \o StreamErrorEvents(r)]
            /\ UNCHANGED closed
       ELSE /\ http' = [http EXCEPT ![h] = openAIError(CatchStatus(code))]
            /\ UNCHANGED <<sse, closed>>

\* An exception leaves the request's path: a streaming path catches it inside
\* start(controller) (the 200 response is already committed), a JSON path
\* lets it reach the catch of fetch. Once the client is gone its stream is
\* cancelled: controller.enqueue throws, in the try and again in the catch,
\* so start() ends having written nothing.
Thrown(h, r, code) ==
    /\ pc' = [pc EXCEPT ![h] = "done"]
    /\ IF r.stream
       THEN /\ http' = [http EXCEPT ![h] = SseResponse]
            /\ IF client[h].gone
               THEN UNCHANGED <<sse, closed>>
               ELSE /\ sse' = [sse EXCEPT ![h] = @ \o StreamErrorEvents(r)]
                    /\ closed' = [closed EXCEPT ![h] = @ + 1]
       ELSE /\ http' = [http EXCEPT ![h] = openAIError(CatchStatus(code))]
            /\ UNCHANGED <<sse, closed>>

\* a POST /v1/chat/completions reaches fetch
Arrive(h) ==
    /\ pc[h] = "idle"
    /\ pc' = [pc EXCEPT ![h] = "check"]
    /\ UNCHANGED <<clock, requestCounter, vendorNextId, req, http, sse, closed, gen>>
    /\ UNCHANGED <<client, probe>>

\* fetch: if (!isWindsurfRunning()) return openAIError(503, ...)
CheckRunning(h, proc) ==
    /\ pc[h] = "check"
    /\ IF isWindsurfRunning(proc)
       THEN /\ pc' = [pc EXCEPT ![h] = "creds"]
            /\ UNCHANGED <<http, gen>>
       ELSE /\ pc' = [pc EXCEPT ![h] = "done"]
            /\ http' = [http EXCEPT ![h] = openAIError(HTTP_UNAVAILABLE)]
            /\ gen' = [gen EXCEPT ![h].err = getCredentials(proc, TRUE)]
    /\ UNCHANGED <<clock, requestCounter, vendorNextId, req, sse, closed>>
    /\ UNCHANGED <<client, probe>>

\* fetch: const credentials = getCredentials(), inside the try; the process
\* table and the key store are read again, whatever the check saw
GetCredentials(h, proc, stored) ==
    /\ pc[h] = "creds"
    /\ LET code == getCredentials(proc, stored) IN
       IF code = "ok"
       THEN /\ pc' = [pc EXCEPT ![h] = "route"]
            /\ UNCHANGED <<http, gen>>
       ELSE /\ pc' = [pc EXCEPT ![h] = "done"]
            /\ http' = [http EXCEPT ![h] = openAIError(CatchStatus(code))]
            /\ gen' = [gen EXCEPT ![h].err = code]
    /\ UNCHANGED <<clock, requestCounter, vendorNextId, req, sse, closed>>
    /\ UNCHANGED <<client, probe>>

\* fetch after await req.json(): the body r is parsed, the path is chosen
\* and runs up to its first await, the StartCascade call of
\* streamChatGenerator (encodeMetadata has incremented requestCounter); a
\* body without messages throws a TypeError at request.messages.filter
\* before the generator is created
Route(h, r) ==
    /\ pc[h] = "route"
    /\ req' = [req EXCEPT ![h] = r]
    /\ IF r.hasMessages
       THEN /\ requestCounter' = requestCounter + 1
            /\ gen' = [gen EXCEPT ![h].counter = requestCounter + 1,
                                  ![h].startCalls = @ + 1]
            /\ pc' = [pc EXCEPT ![h] = "start_wait"]
            /\ http' = [http EXCEPT ![h] = IF r.stream THEN SseResponse ELSE @]
            /\ UNCHANGED <<sse, closed>>
       ELSE /\ gen' = [gen EXCEPT ![h].err = "TypeError"]
            /\ Thrown(h, r, "TypeError")
            /\ UNCHANGED requestCounter
    /\ UNCHANGED <<clock, vendorNextId>>
    /\ UNCHANGED <<client, probe>>

\* StartCascade settles; on success SendUserCascadeMessage is issued
StartReturn(h, res) ==
    /\ pc[h] = "start_wait"
    /\ vendorNextId' = IF res.cascadeId = vendorNextId THEN vendorNextId + 1 ELSE vendorNextId
    /\ LET code == StartOutcome(res)
           kind == IF ResultKind(res) = "ok" /\ res.cascadeId = 0
                   THEN "empty" ELSE ResultKind(res) IN
       IF code = "ok"
       THEN /\ gen' = [gen EXCEPT ![h].startRes = kind,
                                  ![h].cascadeId = res.cascadeId,
                                  ![h].sendCalls = @ + 1,
                                  ![h].sendId = SendCascadeId(h, res.cascadeId),
                                  ![h].sendCounter = SendMetadataCounter(h)]
            /\ pc' = [pc EXCEPT ![h] = "send_wait"]
            /\ UNCHANGED <<http, sse, closed>>
       ELSE /\ gen' = [gen EXCEPT ![h].startRes = kind, ![h].err = code]
            /\ Thrown(h, req[h], code)
    /\ UNCHANGED <<clock, requestCounter, req>>
    /\ UNCHANGED <<client, probe>>

\* SendUserCascadeMessage settles; on success the poll loop is entered
SendReturn(h, res) ==
    /\ pc[h] = "send_wait"
    /\ LET code == SendOutcome(res) IN
       IF code = "ok"
       THEN /\ gen' = [gen EXCEPT ![h].sendRes = ResultKind(res), ![h].attempt = 0]
            /\ pc' = [pc EXCEPT ![h] = "poll"]
            /\ UNCHANGED <<http, sse, closed>>
       ELSE /\ gen' = [gen EXCEPT ![h].sendRes = ResultKind(res), ![h].err = code]
            /\ Thrown(h, req[h], code)
    /\ UNCHANGED <<clock, requestCounter, vendorNextId, req>>
    /\ UNCHANGED <<client, probe>>

\* One turn of the poll loop: the sleep, one GetCascadeTrajectorySteps call
\* and what the loop body does with its result. The turn touches no state
\* another handler reads, so the two awaits of a turn are taken in one step.
\* gen[h].attempt is the loop variable: the number of polls issued before
\* this turn. It is dead once the generator yields (a return follows) and
\* is cleared there.
PollAttempt(h, res) ==
    /\ pc[h] = "poll"
    /\ PollLoopGuard(gen[h].attempt)
    /\ LET text == PollText(res)
           polled == [gen EXCEPT ![h].pollIds = @ \cup {PollCascadeId(h)}] IN
       IF PollOutcome(res) # "ok"
       THEN /\ gen' = [polled EXCEPT ![h].err = PollOutcome(res)]
            /\ Thrown(h, req[h], PollOutcome(res))
       ELSE IF text # "" /\ client[h].gone /\ req[h].stream /\ ~UsesToolPlanner(req[h])
       THEN /\ gen' = [polled EXCEPT ![h].chunks = Append(@, text), ![h].attempt = 0,
                                     ![h].err = "TypeError"]
            /\ pc' = [pc EXCEPT ![h] = "done"]
            /\ UNCHANGED <<http, sse, closed>>
       ELSE IF text # ""
       THEN /\ gen' = [polled EXCEPT ![h].chunks = Append(@, text), ![h].attempt = 0]
            /\ pc' = [pc EXCEPT ![h] = "yielded"]
            /\ sse' = [sse EXCEPT ![h] =
                         IF req[h].stream /\ ~UsesToolPlanner(req[h])
                         THEN @ \o PlainContentEvents(h, req[h], text, clock)
                         ELSE @]
            /\ UNCHANGED <<http, closed>>
       ELSE IF PollLoopGuard(gen[h].attempt + 1)
       THEN /\ gen' = [polled EXCEPT ![h].attempt = @ + 1]
            /\ UNCHANGED <<pc, http, sse, closed>>
       ELSE /\ gen' = [polled EXCEPT ![h].attempt = @ + 1, ![h].err = PollTimeoutCode]
            /\ Thrown(h, req[h], PollTimeoutCode)
    /\ UNCHANGED <<clock, requestCounter, vendorNextId, req>>
    /\ UNCHANGED <<client, probe>>

\* The generator returns after its yield and the path writes its ending.
Finish(h) ==
    /\ pc[h] = "yielded"
    /\ pc' = [pc EXCEPT ![h] = "done"]
    /\ LET r == req[h]
           content == JoinChunks(gen[h].chunks) IN
       IF r.stream /\ client[h].gone
       THEN UNCHANGED <<http, sse, closed>>
       ELSE IF r.stream
       THEN /\ sse' = [sse EXCEPT ![h] =
                         IF UsesToolPlanner(r)
                         THEN @ \o ToolStreamEvents(r, content, clock)
                         ELSE @ \o PlainFinalEvents(h, r, clock)]
            /\ closed' = [closed EXCEPT ![h] = @ + 1]
            /\ UNCHANGED http
       ELSE /\ http' = [http EXCEPT ![h] =
                          IF UsesToolPlanner(r)
                          THEN JsonResponse(ToolPayload(r, content, clock))
                          ELSE JsonResponse(createCompletion(responseId(h),
                                   requestedModel(r), content, "stop", clock))]
            /\ UNCHANGED <<sse, closed>>
    /\ UNCHANGED <<clock, requestCounter, vendorNextId, req, gen>>
    /\ UNCHANGED <<client, probe>>

\* the wall clock passes a second boundary
Tick ==
    /\ clock < MaxClock
    /\ clock' = clock + 1
    /\ UNCHANGED <<requestCounter, vendorNextId, pc, req, http, sse, closed, gen>>
    /\ UNCHANGED <<client, probe>>

Next ==
    \/ \E h \in Handlers : Arrive(h)
    \/ \E h \in Handlers, proc \in OsProcStates : CheckRunning(h, proc)
    \/ \E h \in Handlers, proc \in OsProcStates, stored \in BOOLEAN :
          GetCredentials(h, proc, stored)
    \/ \E h \in Handlers, r \in Requests : Route(h, r)
    \/ \E h \in Handlers, res \in StartResults(vendorNextId) : StartReturn(h, res)
    \/ \E h \in Handlers, res \in SendResults : SendReturn(h, res)
    \/ \E h \in Handlers, res \in PollResults : PollAttempt(h, res)
    \/ \E h \in Handlers : Finish(h)
    \/ Tick

Spec == Init /\ [][Next]_vars

\* what handler h does once its request has arrived: every await of the code
\* settles (the OS tools return, the RPC completes or fails, the timer fires)
Step(h) ==
    \/ \E proc \in OsProcStates : CheckRunning(h, proc)
    \/ \E proc \in OsProcStates, stored \in BOOLEAN : GetCredentials(h, proc, stored)
    \/ \E r \in Requests : Route(h, r)
    \/ \E res \in StartResults(vendorNextId) : StartReturn(h, res)
    \/ \E res \in SendResults : SendReturn(h, res)
    \/ \E res \in PollResults : PollAttempt(h, res)
    \/ Finish(h)

\* The client of a streaming response closes its connection and the runtime
\* cancels the ReadableStream. The underlying source of the stream has no
\* cancel() and start() reads no signal: what the handler does next is what
\* its other actions say.
Disconnect(h) ==
    /\ pc[h] \in {"start_wait", "send_wait", "poll", "yielded"}
    /\ http[h].kind = "sse"
    /\ ~client[h].gone
    /\ client' = [client EXCEPT ![h] =
                     [gone |-> TRUE, polling |-> pc[h] = "poll",
                      at |-> gen[h].attempt, written |-> Len(sse[h])]]
    /\ UNCHANGED <<clock, requestCounter, vendorNextId, pc, req, http, sse, closed,
                   gen, probe>>

\* one request in flight (handlers share nothing but the two counters and
\* the clock, so how one of them ends does not depend on the other)
SoloNext == Arrive(1) \/ Step(1) \/ Tick

\* every RPC completing, the handler is never suspended forever
SoloFairSpec == Init /\ [][SoloNext]_vars /\ WF_vars(Step(1))

(***************************************************************************)
(* Properties                                                              *)
(***************************************************************************)

\* a GetCascadeTrajectorySteps call of h has been issued
Polled(h) == gen[h].pollIds # {}

PlainStream(r) == r.stream /\ ~UsesToolPlanner(r)

\* the events of a stream that are chat.completion.chunk objects
ChunkIndexes(h) == {i \in 1..Len(sse[h]) : sse[h][i].type = "chunk"}

\* C1: within one completion SendUserCascadeMessage is issued only after
\* StartCascade returned status 0 with a non-empty cascade_id, and
\* GetCascadeTrajectorySteps only after SendUserCascadeMessage returned
\* status 0; after a failed or empty StartCascade there is no Send and no
\* Poll, after a failed Send there is no Poll.
C1_RpcOrder ==
    \A h \in Handlers :
        /\ gen[h].sendCalls > 0 =>
              /\ gen[h].startCalls > 0
              /\ gen[h].startRes = "ok"
              /\ gen[h].cascadeId # 0
        /\ (Polled(h) \/ pc[h] \in {"poll", "yielded"}) =>
              /\ gen[h].sendCalls > 0
              /\ gen[h].sendRes = "ok"
        /\ gen[h].startRes \in {"transport", "status", "empty"} =>
              /\ gen[h].sendCalls = 0
              /\ ~Polled(h)
              /\ pc[h] = "done"
        /\ gen[h].sendRes \in {"transport", "status"} =>
              /\ ~Polled(h)
              /\ pc[h] = "done"

\* one completion polls after both calls succeeded while the other one ended
\* on a StartCascade response without a cascade id
C1_Witness ==
    \E h, g \in Handlers :
        /\ Polled(h) /\ gen[h].sendRes = "ok"
        /\ gen[g].startRes = "empty" /\ pc[g] = "done" /\ gen[g].sendCalls = 0

\* the completion of h has ended with the WindsurfError STREAM_ERROR
Aborted(h) == pc[h] = "done" /\ gen[h].err = "STREAM_ERROR"

\* a step in which an RPC of h settles with a non-zero grpc-status (in the
\* formulas below the tests of pc[h] and gen[h] before it only pick out the
\* steps of h: each such step changes them)
StartRefused(h) ==
    \E res \in StartResults(vendorNextId) :
        ~res.transport /\ res.status # 0 /\ StartReturn(h, res)

SendRefused(h) ==
    \E res \in SendResults : ~res.transport /\ res.status # 0 /\ SendReturn(h, res)

PollRefused(h) ==
    \E res \in PollResults : ~res.transport /\ res.status # 0 /\ PollAttempt(h, res)

\* C2 as claimed: for each of the three RPCs a non-zero grpc-status aborts
\* the completion with a WindsurfError whose code is STREAM_ERROR.
C2_EveryNonZeroStatusAborts ==
    [][\A h \in Handlers :
          (/\ gen'[h] # gen[h]
           /\ StartRefused(h) \/ SendRefused(h) \/ PollRefused(h)) => Aborted(h)']_vars

\* C2 as amended: a non-zero grpc-status of StartCascade or of
\* SendUserCascadeMessage aborts the completion with STREAM_ERROR; a
\* non-zero grpc-status of GetCascadeTrajectorySteps does not: the attempt is
\* counted and the loop goes on, and the completion is aborted with
\* STREAM_ERROR only when that was attempt number POLL_MAX_ATTEMPTS.
C2_StartAndSendStatusAborts ==
    [][\A h \in Handlers :
          /\ (pc[h] = "start_wait" /\ pc'[h] # pc[h] /\ StartRefused(h)) => Aborted(h)'
          /\ (pc[h] = "send_wait" /\ pc'[h] # pc[h] /\ SendRefused(h)) => Aborted(h)'
          /\ (pc[h] = "poll" /\ gen'[h] # gen[h] /\ PollRefused(h)) =>
                /\ gen'[h].attempt = gen[h].attempt + 1
                /\ gen[h].attempt + 1 < POLL_MAX_ATTEMPTS =>
                      pc'[h] = "poll" /\ gen'[h].err = "none"
                /\ gen[h].attempt + 1 = POLL_MAX_ATTEMPTS => Aborted(h)']_vars

\* one completion was aborted by the status of its Send while the other one
\* polls again after a poll that brought no text
C2_Witness ==
    \E h, g \in Handlers :
        /\ gen[h].sendRes = "status" /\ Aborted(h)
        /\ pc[g] = "poll" /\ gen[g].attempt > 0

\* the polls of h are counted by the loop variable
C3_Bounded ==
    \A h \in Handlers :
        /\ gen[h].attempt <= POLL_MAX_ATTEMPTS
        /\ pc[h] = "poll" => gen[h].attempt < POLL_MAX_ATTEMPTS
        /\ gen[h].attempt = POLL_MAX_ATTEMPTS => Aborted(h)
        /\ (pc[h] = "done" /\ gen[h].sendRes = "ok" /\ gen[h].err # "none") =>
              gen[h].attempt = POLL_MAX_ATTEMPTS /\ gen[h].err = "STREAM_ERROR"

\* C3: after a successful Send at most POLL_MAX_ATTEMPTS polls are issued;
\* when none of them yields planner text the completion fails with
\* STREAM_ERROR after the last one; so, every RPC completing, a completion
\* that has entered the Cascade client ends and never polls forever.
C3_PollingBoundedAndEnds ==
    /\ []C3_Bounded
    /\ \A h \in Handlers : (pc[h] \in {"start_wait", "send_wait", "poll"}) ~> (pc[h] = "done")

\* a completion has timed out after POLL_MAX_ATTEMPTS polls without text
C3_Witness ==
    \E h \in Handlers :
        /\ pc[h] = "done"
        /\ gen[h].sendRes = "ok"
        /\ gen[h].attempt = POLL_MAX_ATTEMPTS
        /\ gen[h].err = "STREAM_ERROR"

\* a poll that is either rejected by the transport or answered with status
\* 0 and planner text
FlakyPoll(h) ==
    \E res \in {Rejected} \cup {GrpcResult(FALSE, 0, 0, t) : t \in VendorTexts} :
        PollAttempt(h, res)

\* one request in flight over a transport that fails polls
FlakyNext ==
    \/ Arrive(1)
    \/ \E proc \in OsProcStates : CheckRunning(1, proc)
    \/ \E proc \in OsProcStates, stored \in BOOLEAN : GetCredentials(1, proc, stored)
    \/ \E r \in Requests : Route(1, r)
    \/ \E res \in StartResults(vendorNextId) : StartReturn(1, res)
    \/ \E res \in SendResults : SendReturn(1, res)
    \/ FlakyPoll(1)
    \/ Finish(1)
    \/ Tick

FlakySpec == Init /\ [][FlakyNext]_vars

\* a step in which a poll of h is rejected by the transport
PollRejected(h) == pc[h] = "poll" /\ gen'[h] # gen[h] /\ PollAttempt(h, Rejected)

\* a step in which a poll of h is answered with status 0 and planner text t
PollAnswered(h, t) ==
    pc[h] = "poll" /\ gen'[h] # gen[h] /\ PollAttempt(h, GrpcResult(FALSE, 0, 0, t))

\* C19: a transport failure of one GetCascadeTrajectorySteps call does not
\* end the completion: the attempt is counted and, unless it was attempt
\* number POLL_MAX_ATTEMPTS, no error is raised and the loop goes on to the
\* next attempt; a poll that then returns planner text makes the generator
\* yield that text with no error.
C19_PollTransportFailureIsSkipped ==
    [][\A h \in Handlers :
          /\ PollRejected(h) =>
                /\ gen'[h].attempt = gen[h].attempt + 1
                /\ gen'[h].chunks = gen[h].chunks
                /\ gen[h].attempt + 1 < POLL_MAX_ATTEMPTS =>
                      /\ pc'[h] = "poll"
                      /\ gen'[h].err = "none"
                      /\ PollLoopGuard(gen'[h].attempt)
          /\ \A t \in VendorTexts :
                PollAnswered(h, t) =>
                    /\ pc'[h] = "yielded"
                    /\ gen'[h].chunks = Append(gen[h].chunks, t)
                    /\ gen'[h].err = "none"]_vars

\* three polls in a row were rejected and the completion is still polling
C19_Witness ==
    /\ pc[1] = "poll"
    /\ gen[1].attempt = 3
    /\ gen[1].err = "none"

\* one request in flight whose client may disconnect
CancelNext == Arrive(1) \/ Step(1) \/ Disconnect(1) \/ Tick

CancelSpec == Init /\ [][CancelNext]_vars

\* C18: when the client disconnects while a streaming completion is
\* polling, the handler starts no poll beyond the one in flight and writes
\* nothing more to the stream.
C18_DisconnectStopsPolling ==
    \A h \in Handlers :
        (client[h].gone /\ client[h].polling) =>
            /\ gen[h].attempt <= client[h].at + 1
            /\ Len(sse[h]) = client[h].written

\* C4: a completion issues exactly one StartCascade and at most one
\* SendUserCascadeMessage; the cascade_id of its Send and of every Poll is
\* the one its own StartCascade returned, and no cascade_id is used by two
\* completions.
C4_OneSessionPerCompletion ==
    \A h \in Handlers :
        /\ gen[h].startCalls <= 1
        /\ gen[h].sendCalls <= 1
        /\ gen[h].counter # 0 => gen[h].startCalls = 1
        /\ gen[h].sendCalls = 1 => gen[h].sendId = gen[h].cascadeId /\ gen[h].cascadeId # 0
        /\ gen[h].pollIds \subseteq {gen[h].cascadeId} \ {0}
        /\ \A g \in Handlers \ {h} :
              ({gen[h].sendId} \cup gen[h].pollIds) \cap
              ({gen[g].sendId} \cup gen[g].pollIds) \subseteq {0}

\* both completions have sent and polled, each on its own cascade
C4_Witness ==
    \A h \in Handlers :
        /\ Polled(h)
        /\ gen[h].sendCalls = 1
        /\ gen[h].cascadeId # 0

\* C5: every text/event-stream body that has been closed ends with the
\* event data: [DONE].
C5_StreamEndsWithDone ==
    \A h \in Handlers :
        (http[h].kind = "sse" /\ closed[h] > 0) =>
            /\ Len(sse[h]) > 0
            /\ sse[h][Len(sse[h])].type = "done"

\* C6: a plain streaming completion whose poll returned the text T carries
\* the chunk (T, finish_reason null), then the chunk ("", "stop"), then
\* [DONE], and nothing else; the content chunk is there from the yield on.
C6_PlainStreamSequence ==
    \A h \in Handlers :
        (PlainStream(req[h]) /\ gen[h].chunks # <<>>) =>
            LET T == gen[h].chunks[1] IN
            /\ Len(gen[h].chunks) = 1
            /\ T # ""
            /\ Len(sse[h]) >= 1
            /\ sse[h][1].type = "chunk"
            /\ sse[h][1].content = T
            /\ sse[h][1].finish = "null"
            /\ pc[h] = "yielded" => Len(sse[h]) = 1 /\ closed[h] = 0
            /\ pc[h] = "done" =>
                  /\ Len(sse[h]) = 3
                  /\ sse[h][2].type = "chunk"
                  /\ sse[h][2].content = ""
                  /\ sse[h][2].finish = "stop"
                  /\ sse[h][3].type = "done"
                  /\ closed[h] = 1

\* a plain streaming completion has ended after the vendor text "hello"
C6_Witness ==
    \E h \in Handlers :
        /\ PlainStream(req[h])
        /\ pc[h] = "done"
        /\ gen[h].chunks = <<"hello">>
        /\ Len(sse[h]) = 3

\* C7: in every stream a chunk with non-empty content has finish_reason
\* null, and a chunk with finish_reason "stop" or "tool_calls" is the last
\* chunk of the stream.
C7_FinishReasonOnlyOnTerminalChunk ==
    \A h \in Handlers :
        \A i \in ChunkIndexes(h) :
            /\ sse[h][i].content # "" => sse[h][i].finish = "null"
            /\ sse[h][i].finish # "null" => \A j \in ChunkIndexes(h) : j <= i

\* C8: all chunks of one streaming response carry the same id, the same
\* created timestamp and the same model, and the model is the string the
\* client requested.
C8_ChunkIdentityStable ==
    \A h \in Handlers :
        \A i, j \in ChunkIndexes(h) :
            /\ sse[h][i].id = sse[h][j].id
            /\ sse[h][i].created = sse[h][j].created
            /\ sse[h][i].model = sse[h][j].model
            /\ req[h].model # "" => sse[h][i].model = req[h].model

CredentialErrors == {"NOT_RUNNING", "CSRF_MISSING", "API_KEY_MISSING"}

\* C9: a request whose credential resolution failed is answered with
\* status 503 and the OpenAI-shaped error body.
C9_CredentialFailureIs503 ==
    \A h \in Handlers :
        gen[h].err \in CredentialErrors =>
            /\ http[h].status = HTTP_UNAVAILABLE
            /\ http[h].body.type = "openai_error"

\* C10: a completion that failed in the Cascade client with STREAM_ERROR or
\* CONNECTION_FAILED is answered with status 502.
C10_CascadeFailureIs502 ==
    \A h \in Handlers :
        (pc[h] = "done" /\ gen[h].err \in {"STREAM_ERROR", "CONNECTION_FAILED"}) =>
            http[h].status = 502

\* C11: a chat-completions request whose body has no messages (a body that
\* is not JSON is read as {}) is answered with status 400, and no Cascade
\* RPC is issued for it.
C11_MissingMessagesIs400 ==
    \A h \in Handlers :
        gen[h].err = "TypeError" =>
            /\ http[h].status = 400
            /\ gen[h].startCalls = 0

(***************************************************************************)
(* server.ts: the routing tests on the parsed body                         *)
(***************************************************************************)

\* JSON values a body can carry in stream: true, false, no field, the
\* string "true", the number 1
StreamValues == {"true", "false", "absent", "'true'", "1"}

\* ... in tools: no field, [], an array of one tool, a non-empty string
ToolsValues == {"absent", "[]", "[tool]", "'tool'"}

\* ... in tool_calls of a message: no field, [], an array of one call
ToolCallsValues == {"absent", "[]", "[call]"}

\* an element of messages: a message object, or null
RoutedMessages ==
    [role : {"user", "assistant", "tool"}, tool_calls : ToolCallsValues] \cup
    {[role |-> "null", tool_calls |-> "absent"]}

\* messages: no field, a string, or an array of up to two elements
MessagesValues ==
    {[kind |-> "absent", items |-> <<>>], [kind |-> "string", items |-> <<>>]} \cup
    {[kind |-> "array", items |-> m] :
        m \in {<<>>} \cup {<<a>> : a \in RoutedMessages}
                     \cup {<<a, b>> : a, b \in RoutedMessages}}

Bodies == [stream : StreamValues, tools : ToolsValues, messages : MessagesValues]

\* the test that reads a truthy stream as a request for SSE
isStreaming_Truthy(body) == body.stream \in {"true", "'true'", "1"}

\* const isStreaming = requestBody.stream === true
isStreaming(body) == body.stream = "true"

\* Array.isArray(requestBody.tools) && requestBody.tools.length > 0
hasToolsField(body) == body.tools = "[tool]"

\* m.role === 'tool' || (m.role === 'assistant' &&
\* Array.isArray(m.tool_calls) && m.tool_calls.length > 0)
IsToolMessage(m) ==
    m.role = "tool" \/ (m.role = "assistant" /\ m.tool_calls = "[call]")

\* requestBody.messages?.some(...) throws when messages is a string (a
\* string has no method some), and when some reaches a null element (it
\* stops at the first element the test accepts)
ToolMessagesTestThrows(body) ==
    \/ body.messages.kind = "string"
    \/ /\ body.messages.kind = "array"
       /\ \E i \in 1..Len(body.messages.items) :
             /\ body.messages.items[i].role = "null"
             /\ \A j \in 1..(i - 1) : ~IsToolMessage(body.messages.items[j])

\* const hasToolMessages = requestBody.messages?.some(...)
hasToolMessages(body) ==
    /\ body.messages.kind = "array"
    /\ ~ToolMessagesTestThrows(body)
    /\ \E i \in 1..Len(body.messages.items) : IsToolMessage(body.messages.items[i])

\* the facts of the body that Route branches on
ParsedRequest(body) ==
    Request(isStreaming(body), hasToolsField(body), hasToolMessages(body),
            body.messages.kind = "array", "")

NoRoute == [planner |-> FALSE, sse |-> FALSE, threw |-> FALSE, applied |-> FALSE]

\* fetch from the body to the choice of the path: which handler gets the
\* request and whether the Response is an SSE stream; an exception of the
\* tests is answered by the catch of fetch with a JSON error
RouteRequest(body) ==
    IF ToolMessagesTestThrows(body)
    THEN [planner |-> FALSE, sse |-> FALSE, threw |-> TRUE, applied |-> TRUE]
    ELSE [planner |-> UsesToolPlanner(ParsedRequest(body)),
          sse |-> ParsedRequest(body).stream,
          threw |-> FALSE, applied |-> TRUE]

RoutingInit ==
    /\ Idle
    /\ probe \in {[fn |-> "route", in |-> b, out |-> NoRoute] : b \in Bodies}

ApplyRoute ==
    /\ probe.fn = "route"
    /\ ~probe.out.applied
    /\ probe' = [probe EXCEPT !.out = RouteRequest(probe.in)]
    /\ UNCHANGED <<clock, requestCounter, vendorNextId, pc, req, http, sse, closed,
                   gen, client>>

RoutingNext == ApplyRoute

\* the routing tests applied to every body of Bodies
RoutingSpec == RoutingInit /\ [][RoutingNext]_vars

\* the three facts the routing is claimed to depend on
ToolsNonEmptyArray(body) == body.tools = "[tool]"

SomeToolMessage(body) ==
    /\ body.messages.kind = "array"
    /\ \E i \in 1..Len(body.messages.items) :
          \/ body.messages.items[i].role = "tool"
          \/ /\ body.messages.items[i].role = "assistant"
             /\ body.messages.items[i].tool_calls = "[call]"

StreamIsTrue(body) == body.stream = "true"

ArrayOfObjects(body) ==
    /\ body.messages.kind = "array"
    /\ \A i \in 1..Len(body.messages.items) : body.messages.items[i].role # "null"

NoPlanned == [applied |-> FALSE, resp |-> Blank]

\* the tool-planned requests that are followed: SSE or JSON, with and
\* without a model, and the text runWindsurfOnce returned for them
PlannedInputs ==
    [text : PlannerTexts, stream : BOOLEAN, model : {"", "gemini-3-0-pro-high"}]

PlannedRequest(in) == Request(in.stream, TRUE, FALSE, TRUE, in.model)

PlannerInit ==
    /\ Idle
    /\ probe \in {[fn |-> "plan", in |-> i, out |-> NoPlanned] : i \in PlannedInputs}

\* handleToolPlanningStream (its one chunk) or handleToolPlanning (its body)
\* once planToolCall has returned the text
ApplyPlanner ==
    /\ probe.fn = "plan"
    /\ ~probe.out.applied
    /\ probe' = [probe EXCEPT !.out =
          [applied |-> TRUE,
           resp |-> IF probe.in.stream
                    THEN ToolStreamEvents(PlannedRequest(probe.in), probe.in.text, clock)[1]
                    ELSE ToolPayload(PlannedRequest(probe.in), probe.in.text, clock)]]
    /\ UNCHANGED <<clock, requestCounter, vendorNextId, pc, req, http, sse, closed,
                   gen, client>>

PlannerNext == ApplyPlanner \/ Tick

\* the tool planner applied to every text of PlannerTexts
PlannerSpec == PlannerInit /\ [][PlannerNext]_vars

\* C13: the outcome of a tool-planned completion is decided by the parsed
\* plan alone: finish_reason is "tool_calls" exactly when the plan is a
\* tool_call plan, and then the response carries the calls of the plan with
\* every function.arguments a string; a final plan gives the plan's content
\* with finish_reason "stop"; no plan gives the vendor text unchanged with
\* finish_reason "stop".
C13_OutcomeDecidedByPlan ==
    probe.out.applied =>
        LET plan == parseToolCallPlan(probe.in.text)
            resp == probe.out.resp IN
        /\ resp.finish = "tool_calls" <=> plan.action = "tool_call"
        /\ plan.action = "tool_call" =>
              /\ Len(resp.tool_calls) = Len(plan.tool_calls)
              /\ \A i \in 1..Len(resp.tool_calls) :
                    /\ resp.tool_calls[i].name = plan.tool_calls[i].name
                    /\ resp.tool_calls[i].arguments.type = "string"
        /\ plan.action = "final" =>
              resp.finish = "stop" /\ resp.content = plan.content
        /\ plan.action = "null" =>
              resp.finish = "stop" /\ resp.content = probe.in.text

\* a streamed plan of two calls read from <tool_call> tags was answered
\* with both calls and finish_reason "tool_calls"
C13_Witness ==
    /\ probe.out.applied
    /\ probe.in.stream
    /\ probe.in.text = TwoTagsText
    /\ probe.out.resp.finish = "tool_calls"
    /\ Len(probe.out.resp.tool_calls) = 2

(***************************************************************************)
(* plugin.ts and grpc-client.ts: the text item sent to Cascade             *)
(***************************************************************************)

\* A text is kept as the sequence of the pieces it was concatenated from;
\* it is the empty string when every piece is.
IsEmptyText(text) == \A i \in 1..Len(text) : text[i] = ""

\* parts.join(sep)
RECURSIVE JoinTexts(_, _)
JoinTexts(parts, sep) ==
    IF parts = <<>> THEN <<>>
    ELSE IF Len(parts) = 1 THEN parts[1]
    ELSE parts[1] \o <<sep>> \o JoinTexts(Tail(parts), sep)

\* parts.filter(Boolean)
NonEmptyTexts(parts) == SelectSeq(parts, LAMBDA t : ~IsEmptyText(t))

\* the messages of a request: two system and two user contents (and the
\* empty one), one assistant and one tool content
ChatMessages ==
    {[role |-> "system", content |-> c] : c \in {"", "s1", "s2"}} \cup
    {[role |-> "user", content |-> c] : c \in {"", "u1", "u2"}} \cup
    {[role |-> "assistant", content |-> "a1"], [role |-> "tool", content |-> "t1"]}

MessageLists ==
    {<<>>} \cup {<<a>> : a \in ChatMessages}
           \cup {<<a, b>> : a, b \in ChatMessages}
           \cup {<<a, b, c>> : a, b, c \in ChatMessages}

\* the contents of the messages of one role, in their order
ContentsOf(messages, role) ==
    LET kept == SelectSeq(messages, LAMBDA m : m.role = role) IN
    [i \in 1..Len(kept) |-> <<kept[i].content>>]

\* createStreamingResponse / createNonStreamingResponse:
\* request.messages.filter(m => m.role !== 'assistant' && m.role !== 'tool')
ConvertMessages(messages) ==
    SelectSeq(messages, LAMBDA m : m.role \notin {"assistant", "tool"})

\* the text that joins the contents in the order of the messages
CascadeText_InOrder(messages) ==
    LET kept == SelectSeq(messages, LAMBDA m : m.role \in {"system", "user"})
        text == JoinTexts([i \in 1..Len(kept) |-> <<kept[i].content>>], "\n\n") IN
    IF IsEmptyText(text) THEN <<"Hello">> ELSE text

\* buildSendUserCascadeMessageRequest:
\* [...systemParts, ...userParts].join('\n\n') || 'Hello'
CascadeText(messages) ==
    LET text == JoinTexts(ContentsOf(messages, "system") \o ContentsOf(messages, "user"),
                          "\n\n") IN
    IF IsEmptyText(text) THEN <<"Hello">> ELSE text

\* buildToolPrompt: one line of the conversation per message that is not a
\* system message (no line for an empty content)
ConversationLine(m) ==
    IF m.role = "tool" THEN <<"TOOL RESULT (tool): ", m.content>>
    ELSE IF m.content = "" THEN <<>>
    ELSE IF m.role = "assistant" THEN <<"ASSISTANT: ", m.content>>
    ELSE <<"USER: ", m.content>>

\* buildToolPrompt: the preamble, the system texts, the tool list with the
\* output rules (fixed lines, kept as one piece), the conversation
buildToolPrompt(messages) ==
    LET systemText == JoinTexts(NonEmptyTexts(ContentsOf(messages, "system")), "\n\n")
        others == SelectSeq(messages, LAMBDA m : m.role # "system")
        conversationLines ==
            NonEmptyTexts([i \in 1..Len(others) |-> ConversationLine(others[i])]) IN
    JoinTexts(NonEmptyTexts(<<
        <<"You are a tool-calling assistant running inside OpenCode.">>,
        IF IsEmptyText(systemText) THEN <<>> ELSE <<"System: ">> \o systemText,
        <<"Available tools: ... STRICT OUTPUT: ... RESPONSE FORMAT: ...">>,
        <<"Conversation:">>,
        JoinTexts(conversationLines, "\n\n")>>), "\n")

\* the text item of SendUserCascadeMessage for a request with these
\* messages: on the planner's paths runWindsurfOnce sends the prompt as the
\* one user message, on the plain ones the converted messages are sent
OutboundText(planned, messages) ==
    IF planned
    THEN LET text == buildToolPrompt(messages) IN
         IF IsEmptyText(text) THEN <<"Hello">> ELSE text
    ELSE CascadeText(ConvertMessages(messages))

NoOutbound == [applied |-> FALSE, planned |-> FALSE, text |-> <<>>]

OutboundInit ==
    /\ Idle
    /\ probe \in {[fn |-> "outbound", in |-> [tools |-> t, messages |-> m],
                   out |-> NoOutbound] : t \in BOOLEAN, m \in MessageLists}

\* the request is routed and the text item of its Send is built
ApplyOutbound ==
    /\ probe.fn = "outbound"
    /\ ~probe.out.applied
    /\ LET planned == \/ probe.in.tools
                      \/ \E i \in 1..Len(probe.in.messages) :
                            probe.in.messages[i].role = "tool" IN
       probe' = [probe EXCEPT !.out =
                    [applied |-> TRUE, planned |-> planned,
                     text |-> OutboundText(planned, probe.in.messages)]]
    /\ UNCHANGED <<clock, requestCounter, vendorNextId, pc, req, http, sse, closed,
                   gen, client>>

OutboundNext == ApplyOutbound

\* the text item built for every request of MessageLists
OutboundSpec == OutboundInit /\ [][OutboundNext]_vars

\* the pieces of a text that are contents of assistant or tool messages
DroppedContents == {"a1", "t1"}

HasDroppedContent(text) == \E i \in 1..Len(text) : text[i] \in DroppedContents

\* the system contents, then the user contents, joined by blank lines
SystemsThenUsers(messages) ==
    JoinTexts(ContentsOf(messages, "system") \o ContentsOf(messages, "user"), "\n\n")

ClaimedText(messages) ==
    IF IsEmptyText(SystemsThenUsers(messages)) THEN <<"Hello">>
    ELSE SystemsThenUsers(messages)

\* C14 as claimed: the text item of every SendUserCascadeMessage holds no
\* assistant or tool content; it is the system contents followed by the user
\* contents, each in their order, joined by blank lines, or "Hello" when
\* that is empty.
C14_TextIsSystemsThenUsers ==
    probe.out.applied =>
        /\ ~HasDroppedContent(probe.out.text)
        /\ probe.out.text = ClaimedText(probe.in.messages)

\* C14 as amended: that holds for a completion the tool planner does not
\* handle; for a tool-planned completion the text item is the planner
\* prompt, which is never empty and renders every tool message and every
\* assistant message with content as a line of the conversation.
C14_PlainTextIsSystemsThenUsers ==
    probe.out.applied =>
        IF probe.out.planned
        THEN /\ probe.out.text = buildToolPrompt(probe.in.messages)
             /\ ~IsEmptyText(probe.out.text)
             /\ \A i \in 1..Len(probe.in.messages) :
                   probe.in.messages[i].role \in {"assistant", "tool"} =>
                       \E j \in 1..Len(probe.out.text) :
                           probe.out.text[j] = probe.in.messages[i].content
        ELSE /\ ~HasDroppedContent(probe.out.text)
             /\ probe.out.text = ClaimedText(probe.in.messages)

\* a plain request of a user, an assistant and a system message was sent as
\* the system content, a blank line, the user content
C14_Witness ==
    /\ probe.out.applied
    /\ ~probe.out.planned
    /\ probe.in.messages = <<[role |-> "user", content |-> "u1"],
                             [role |-> "assistant", content |-> "a1"],
                             [role |-> "system", content |-> "s1"]>>
    /\ probe.out.text = <<"s1", "\n\n", "u1">>

(***************************************************************************)
(* plugin/models.ts: the model resolver (catalog entries as the unit       *)
(* tests of src/tests/unit/variant.test.ts show them)                      *)
(***************************************************************************)

Undefined == "undefined"

\* VariantSpec: an enum value (0 for none) and a model uid
VariantSpec(enumValue, modelUid) == [enumValue |-> enumValue, modelUid |-> modelUid]

\* VARIANT_CATALOG: canonical id -> variant name -> VariantSpec
VARIANT_CATALOG ==
    [m \in {"gemini-3.0-pro", "gpt-5.2", "claude-4.6-opus"} |->
        CASE m = "gemini-3.0-pro" ->
                [v \in {"low", "high"} |->
                    IF v = "low" THEN VariantSpec(411, Undefined)
                    ELSE VariantSpec(412, Undefined)]
          [] m = "gpt-5.2" ->
                [v \in {"high", "fast"} |->
                    IF v = "high" THEN VariantSpec(402, Undefined)
                    ELSE VariantSpec(403, Undefined)]
          [] OTHER ->
                [v \in {"default", "thinking"} |->
                    IF v = "default" THEN VariantSpec(0, "claude-opus-4-6")
                    ELSE VariantSpec(0, "claude-opus-4-6-thinking")]]

\* the catalog's default_variant of a canonical id
DefaultVariant(m) == IF m = "claude-4.6-opus" THEN "default" ELSE Undefined

\* ALIAS_TO_CANONICAL
ALIAS_TO_CANONICAL ==
    [a \in {"gemini-3-0-pro", "gpt-5-2"} |->
        IF a = "gemini-3-0-pro" THEN "gemini-3.0-pro" ELSE "gpt-5.2"]

\* NAME_TO_ENUM: the legacy flat map
NAME_TO_ENUM ==
    [n \in {"gemini-3.0-pro", "gpt-5.2", "claude-3.5-sonnet"} |->
        CASE n = "gemini-3.0-pro" -> 410
          [] n = "gpt-5.2" -> 401
          [] OTHER -> 166]

KnownVariants == {"low", "high", "fast", "thinking"}

\* A model string, kept as the pieces it is written from: <<id>>,
\* <<id, ":", variant>> or <<id, "-", variant>>.
ModelStrings ==
    LET ids == {"gemini-3.0-pro", "gemini-3-0-pro", "gpt-5.2", "claude-4.6-opus",
                "claude-3.5-sonnet", "no-such-model"}
        tails == KnownVariants \cup {"turbo"} IN
    {<<i>> : i \in ids} \cup {<<i, ":", t>> : i \in ids, t \in tails}
                        \cup {<<i, "-", t>> : i \in ids, t \in tails}

Overrides == {Undefined} \cup KnownVariants \cup {"turbo"}

\* step 1: split on the first ':'; without one, a tail that is a known
\* variant after a canonical id or an alias is the variant
ParseModelString(input) ==
    IF Len(input) = 1 THEN [id |-> input[1], variant |-> Undefined]
    ELSE IF input[2] = ":" THEN [id |-> input[1], variant |-> input[3]]
    ELSE IF /\ input[3] \in KnownVariants
            /\ input[1] \in DOMAIN ALIAS_TO_CANONICAL \cup DOMAIN VARIANT_CATALOG
                            \cup DOMAIN NAME_TO_ENUM
         THEN [id |-> input[1], variant |-> input[3]]
         ELSE [id |-> input[1] \o "-" \o input[3], variant |-> Undefined]

\* the variant read from the model string wins
ChooseVariant_ParsedWins(parsed, override) ==
    IF parsed # Undefined THEN parsed ELSE override

\* step 2: an override, when provided, wins over the parsed variant
ChooseVariant(parsed, override) ==
    IF override # Undefined THEN override ELSE parsed

\* a variant with a model uid that keeps its enum value beside it
VariantRouting_BothModes(spec) ==
    [enumValue |-> IF spec.enumValue = 0 THEN 166 ELSE spec.enumValue,
     modelUid |-> spec.modelUid]

\* step 4: a VariantSpec with a model uid gives string-UID routing, any
\* other one enum routing
VariantRouting(spec) ==
    IF spec.modelUid # Undefined
    THEN [enumValue |-> 0, modelUid |-> spec.modelUid]
    ELSE [enumValue |-> spec.enumValue, modelUid |-> Undefined]

\* steps 2 to 5
resolveModel(input, override) ==
    LET parsed == ParseModelString(input)
        variant == ChooseVariant(parsed.variant, override)
        canonical == IF parsed.id \in DOMAIN ALIAS_TO_CANONICAL
                     THEN ALIAS_TO_CANONICAL[parsed.id] ELSE parsed.id
        chosen == IF canonical \in DOMAIN VARIANT_CATALOG /\ variant = Undefined
                  THEN DefaultVariant(canonical) ELSE variant IN
    IF canonical \in DOMAIN VARIANT_CATALOG /\ chosen \in DOMAIN VARIANT_CATALOG[canonical]
    THEN [modelId |-> canonical, variant |-> variant,
          enumValue |-> VariantRouting(VARIANT_CATALOG[canonical][chosen]).enumValue,
          modelUid |-> VariantRouting(VARIANT_CATALOG[canonical][chosen]).modelUid]
    ELSE IF canonical \in DOMAIN NAME_TO_ENUM
    THEN [modelId |-> canonical, variant |-> variant,
          enumValue |-> NAME_TO_ENUM[canonical], modelUid |-> Undefined]
    ELSE [modelId |-> getDefaultModel, variant |-> variant,
          enumValue |-> NAME_TO_ENUM[getDefaultModel], modelUid |-> Undefined]

NoResolved ==
    [applied |-> FALSE, modelId |-> "", variant |-> Undefined, enumValue |-> 0,
     modelUid |-> Undefined]

ResolverInit ==
    /\ Idle
    /\ probe \in {[fn |-> "resolve", in |-> [model |-> m, override |-> o],
                   out |-> NoResolved] : m \in ModelStrings, o \in Overrides}

\* createStreamingResponse: resolveModel(requestedModel, variantOverride)
ApplyResolver ==
    /\ probe.fn = "resolve"
    /\ ~probe.out.applied
    /\ LET r == resolveModel(probe.in.model, probe.in.override) IN
       probe' = [probe EXCEPT !.out =
                    [applied |-> TRUE, modelId |-> r.modelId, variant |-> r.variant,
                     enumValue |-> r.enumValue, modelUid |-> r.modelUid]]
    /\ UNCHANGED <<clock, requestCounter, vendorNextId, pc, req, http, sse, closed,
                   gen, client>>

ResolverNext == ApplyResolver

\* the resolver applied to every model string and override
ResolverSpec == ResolverInit /\ [][ResolverNext]_vars

\* the models with variants, by canonical id or alias
HasVariants(id) ==
    \/ id \in DOMAIN VARIANT_CATALOG
    \/ id \in DOMAIN ALIAS_TO_CANONICAL /\ ALIAS_TO_CANONICAL[id] \in DOMAIN VARIANT_CATALOG

\* C15: an explicit override variant wins over any variant parsed from the
\* model string: for a model m with variants and an override v, both
\* resolveModel(m:w, v) and resolveModel(m, v) have variant v.
C15_OverrideWins ==
    (/\ probe.out.applied
     /\ probe.in.override # Undefined
     /\ HasVariants(probe.in.model[1])
     /\ Len(probe.in.model) = 1 \/ probe.in.model[2] = ":") =>
        probe.out.variant = probe.in.override

\* gemini-3.0-pro:high was resolved with the override low
C15_Witness ==
    /\ probe.out.applied
    /\ probe.in.model = <<"gemini-3.0-pro", ":", "high">>
    /\ probe.in.override = "low"
    /\ probe.out.variant = "low"

\* C16: every resolved model uses exactly one routing mode: a non-empty
\* modelUid with enumValue 0, or no modelUid with enumValue greater than 0;
\* also for an unknown model that falls back to the default.
C16_ExactlyOneRoutingMode ==
    probe.out.applied =>
        \/ probe.out.modelUid \notin {Undefined, ""} /\ probe.out.enumValue = 0
        \/ probe.out.modelUid = Undefined /\ probe.out.enumValue > 0

\* an unknown model with the override of a string-UID variant fell back to
\* the default model, routed by its enum value
C16_Witness ==
    /\ probe.out.applied
    /\ probe.in.model = <<"no-such-model">>
    /\ probe.in.override = "thinking"
    /\ probe.out.modelId = getDefaultModel
    /\ probe.out.modelUid = Undefined
    /\ probe.out.enumValue = 166

\* C17: when the process table shows a language server whose command line
\* has no --csrf_token, the credential resolver fails with CSRF_MISSING, not
\* with NOT_RUNNING; NOT_RUNNING is raised only when no language-server
\* process exists.
C17_MissingTokenIsCsrfMissing ==
    [][\A h \in Handlers : \A proc \in OsProcStates, stored \in BOOLEAN :
          (pc[h] = "creds" /\ GetCredentials(h, proc, stored)) =>
              /\ proc = "nocsrf" => gen'[h].err = "CSRF_MISSING"
              /\ gen'[h].err = "NOT_RUNNING" => proc = "none"]_vars

\* h has entered the Cascade client (its StartCascade was issued)
EnteredCascade(h) == gen[h].startCalls > 0

C20_CounterState ==
    /\ requestCounter = Cardinality({h \in Handlers : EnteredCascade(h)})
    /\ \A h \in Handlers :
          /\ EnteredCascade(h) => gen[h].counter \in 1..requestCounter
          /\ ~EnteredCascade(h) => gen[h].counter = 0
          /\ gen[h].sendCalls > 0 => gen[h].sendCounter = gen[h].counter
    /\ \A h, g \in Handlers :
          (h # g /\ EnteredCascade(h) /\ EnteredCascade(g)) =>
              gen[h].counter # gen[g].counter

\* C20: the request counter is process-wide and only grows: a completion
\* increments it exactly once, its StartCascade and its
\* SendUserCascadeMessage carry that one value, no two completions carry the
\* same value under any interleaving, and the counter never decreases, also
\* when a completion fails.
C20_CounterStrictlyIncreasing ==
    /\ []C20_CounterState
    /\ [][requestCounter' >= requestCounter]_vars

\* two completions carry the values 1 and 2; the first one has failed, the
\* second one has sent its message
C20_Witness ==
    \E h, g \in Handlers :
        /\ gen[h].counter = 1 /\ gen[h].err = "STREAM_ERROR" /\ pc[h] = "done"
        /\ gen[g].counter = 2 /\ gen[g].sendCalls = 1 /\ gen[g].sendCounter = 2

(***************************************************************************)
(* Credential lifetime                                                     *)
(***************************************************************************)

\* the credentials of g were resolved by getCredentials and no connection
\* failure has been seen by g since
ResolvedCredentials(g) ==
    /\ pc[g] \notin {"idle", "check", "creds"}
    /\ gen[g].err \notin {"NOT_RUNNING", "API_KEY_MISSING", "CONNECTION_FAILED"}

\* C21: credentials are cached for about 5 seconds: a request that reaches
\* getCredentials less than 5 s after another request's successful
\* resolution (no connection failure in between) reuses that record without
\* inspecting the OS, so it gets credentials whatever the process table and
\* the key store show by then. (The clock starts at 0, so while clock < 5
\* every earlier resolution is less than 5 s old.)
C21_CredentialsCachedWithinWindow ==
    [][\A h \in Handlers : \A proc \in OsProcStates, stored \in BOOLEAN :
          (/\ pc[h] = "creds"
           /\ clock < 5
           /\ \E g \in Handlers \ {h} : ResolvedCredentials(g)
           /\ \A g \in Handlers : gen[g].err # "CONNECTION_FAILED"
           /\ GetCredentials(h, proc, stored)) => pc'[h] = "route"]_vars

(***************************************************************************)
(* plugin/auth.ts: getPortForPid                                           *)
(***************************************************************************)

\* process.platform
Platforms == {"linux", "darwin", "win32"}

\* the port numbers that are followed, and extPort: null (0 here, the code
\* only tests its truthiness) or the value of --extension_server_port
PortValues == {2, 4, 6, 7}
ExtPortValues == {0, 3, 5}

\* what an OS tool lists: up to MaxListed ports, each once, in any order
MaxListed == 3
PortListings ==
    {s \in UNION {[1..n -> PortValues] : n \in 0..MaxListed} :
        \A i, j \in 1..Len(s) : i # j => s[i] # s[j]}

\* the result null
NoPort == 0

\* ports.sort((a, b) => a - b): ascending numeric order
RECURSIVE SortAscending(_)
SortAscending(ports) ==
    IF ports = <<>> THEN <<>>
    ELSE LET least == CHOOSE i \in 1..Len(ports) :
                          \A j \in 1..Len(ports) : ports[i] <= ports[j]
         IN <<ports[least]>> \o
            SortAscending(SubSeq(ports, 1, least - 1) \o
                          SubSeq(ports, least + 1, Len(ports)))

\* ports.filter(p => p > extPort).sort((a, b) => a - b); filter copies, the
\* array ports keeps its order
PortsAfter(ports, extPort) ==
    LET Above(p) == p > extPort IN SortAscending(SelectSeq(ports, Above))

\* the Linux branches (/proc, then ss): the first port above extPort in
\* ascending order, otherwise the first of the sorted list
SelectSorted(ports, extPort) ==
    IF extPort # 0 /\ PortsAfter(ports, extPort) # <<>>
    THEN PortsAfter(ports, extPort)[1]
    ELSE SortAscending(ports)[1]

\* the macOS branch: the same test, otherwise ports[0] of the unsorted list
SelectListed(ports, extPort) ==
    IF extPort # 0 /\ PortsAfter(ports, extPort) # <<>>
    THEN PortsAfter(ports, extPort)[1]
    ELSE ports[1]

\* if (extPort) return extPort + 3; return null
OffsetFallback(extPort) == IF extPort # 0 THEN extPort + 3 ELSE NoPort

\* getPortForPid(pid, extPort) on platform in.platform, the OS tools listing
\* in.procPorts (/proc/net/tcp*), in.ssPorts (ss -tlnp) and in.lsofPorts
\* (lsof ... | grep LISTEN); a tool that fails lists nothing
getPortForPid(in) ==
    IF in.platform = "linux" /\ in.procPorts # <<>>
        THEN SelectSorted(in.procPorts, in.extPort)
    ELSE IF in.platform = "linux" /\ in.ssPorts # <<>>
        THEN SelectSorted(in.ssPorts, in.extPort)
    ELSE IF in.platform = "darwin" /\ in.lsofPorts # <<>>
        THEN SelectListed(in.lsofPorts, in.extPort)
    ELSE OffsetFallback(in.extPort)

PortInput(platform, extPort, procPorts, ssPorts, lsofPorts) ==
    [platform |-> platform, extPort |-> extPort, procPorts |-> procPorts,
     ssPorts |-> ssPorts, lsofPorts |-> lsofPorts]

\* the calls that are followed: on Linux /proc lists anything and ss lists
\* something when /proc lists nothing; on macOS lsof lists anything; on
\* Windows no tool is asked
PortInputs ==
    {PortInput("linux", e, p, <<>>, <<>>) : e \in ExtPortValues, p \in PortListings}
    \cup {PortInput("linux", e, <<>>, s, <<>>) : e \in ExtPortValues, s \in PortListings}
    \cup {PortInput("darwin", e, <<>>, <<>>, l) : e \in ExtPortValues, l \in PortListings}
    \cup {PortInput("win32", e, <<>>, <<>>, <<>>) : e \in ExtPortValues}

PortInit ==
    /\ Idle
    /\ probe \in {[fn |-> "getPortForPid", in |-> in, applied |-> FALSE, out |-> NoPort] :
                     in \in PortInputs}

\* getPort: const port = getPortForPid(proc.pid, proc.extensionServerPort)
ApplyPortForPid ==
    /\ probe.fn = "getPortForPid"
    /\ ~probe.applied
    /\ probe' = [probe EXCEPT !.applied = TRUE, !.out = getPortForPid(probe.in)]
    /\ UNCHANGED <<clock, requestCounter, vendorNextId, pc, req, http, sse, closed,
                   gen, client>>

PortNext == ApplyPortForPid

PortSpec == PortInit /\ [][PortNext]_vars

\* the ports the tools of the platform have listed for the PID
ListedPorts(in) ==
    LET found == IF in.platform = "linux"
                 THEN (IF in.procPorts # <<>> THEN in.procPorts ELSE in.ssPorts)
                 ELSE in.lsofPorts
    IN {found[i] : i \in 1..Len(found)}

Smallest(S) == CHOOSE p \in S : \A q \in S : p <= q

\* C22: on every platform, for a PID with an extension_server_port,
\* getPortForPid returns the smallest listed port strictly greater than
\* extension_server_port if there is one, otherwise the smallest listed
\* port, whatever the order of the listing; only when nothing is listed
\* does it return extension_server_port + 3.
C22_SmallestPortAfterExtPort ==
    (probe.fn = "getPortForPid" /\ probe.applied /\ probe.in.extPort # 0) =>
        LET ports == ListedPorts(probe.in)
            after == {p \in ports : p > probe.in.extPort} IN
        /\ after # {} => probe.out = Smallest(after)
        /\ (after = {} /\ ports # {}) => probe.out = Smallest(ports)
        /\ ports = {} => probe.out = probe.in.extPort + 3

(***************************************************************************)
(* plugin/grpc-client.ts: the wire codec                                   *)
(*                                                                         *)
(* A Buffer is a sequence of bytes 0..255 and positions count from 0 as in *)
(* the code. A JavaScript number that went through << or | is an int32,    *)
(* kept as an integer in -2^31 .. 2^31 - 1. A non-negative BigInt is kept  *)
(* as its base-128 digits, least significant first, without leading zero   *)
(* digits; a negative BigInt only arises from a negative int32 and is kept *)
(* as that number.                                                         *)
(***************************************************************************)

\* bits 0..30 of an int32, as a natural number
Low31(x) == IF x < 0 THEN (x + 2147483647) + 1 ELSE x

\* the int32 with these bits 0..30 and this bit 31
Int32Of(low31, bit31) == IF bit31 THEN (low31 - 2147483647) - 1 ELSE low31

\* a | b on naturals below 2^31
RECURSIVE OrNat(_, _)
OrNat(a, b) ==
    IF a = 0 THEN b
    ELSE IF b = 0 THEN a
    ELSE (IF a % 2 = 1 \/ b % 2 = 1 THEN 1 ELSE 0) + 2 * OrNat(a \div 2, b \div 2)

\* a | b on int32
Or32(a, b) == Int32Of(OrNat(Low31(a), Low31(b)), a < 0 \/ b < 0)

\* a << shift on int32: the shift count is taken modulo 32 and the bits
\* shifted past bit 31 are lost
Shl32(a, shift) ==
    LET s == shift % 32
        u == Low31(a) IN
    IF s = 0 THEN a
    ELSE Int32Of((u % (2 ^ (31 - s))) * (2 ^ s), (u \div (2 ^ (31 - s))) % 2 = 1)

\* a >> 3 on int32 (the sign bit is copied in)
Sar3(a) == IF a < 0 THEN (Low31(a) \div 8) - 268435456 ELSE a \div 8

\* a & 7 on int32
And7(a) == Low31(a) % 8

\* Buffer.from(number[]) and Buffer writes keep the low 8 bits of an element
ToByte(x) == Low31(x) % 256

ToBuffer(bytes) == [i \in 1..Len(bytes) |-> ToByte(bytes[i])]

\* the base-128 digits of a natural number
RECURSIVE Digits128(_)
Digits128(n) == IF n = 0 THEN <<>> ELSE <<n % 128>> \o Digits128(n \div 128)

\* BigInt(value) of a number
BigIntOf(n) ==
    IF n < 0 THEN [neg |-> TRUE, number |-> n, digits |-> <<>>]
    ELSE [neg |-> FALSE, number |-> 0, digits |-> Digits128(n)]

\* a BigInt given by base-128 digits; leading zero digits do not count
RECURSIVE Canonical(_)
Canonical(digits) ==
    IF digits # <<>> /\ digits[Len(digits)] = 0
    THEN Canonical(SubSeq(digits, 1, Len(digits) - 1))
    ELSE digits

BigIntOfDigits(digits) == [neg |-> FALSE, number |-> 0, digits |-> Canonical(digits)]

\* encodeVarint(value): while (v > 127n) push (v & 0x7f) | 0x80 and shift v
\* right by 7; then push Number(v). A negative v never enters the loop and
\* is pushed as it is.
encodeVarint(v) ==
    IF v.neg THEN <<v.number>>
    ELSE IF Len(v.digits) <= 1
         THEN <<IF v.digits = <<>> THEN 0 ELSE v.digits[1]>>
         ELSE [i \in 1..Len(v.digits) |->
                  IF i < Len(v.digits) THEN v.digits[i] + 128 ELSE v.digits[i]]

\* (fieldNum << 3) | wire, in int32 arithmetic
EncodeTag(fieldNum, wire) == Or32(Shl32(fieldNum, 3), wire)

\* encodeString(fieldNum, str), str given by its UTF-8 bytes
encodeString(fieldNum, strBytes) ==
    encodeVarint(BigIntOf(EncodeTag(fieldNum, 2)))
        \o encodeVarint(BigIntOf(Len(strBytes))) \o strBytes

\* encodeMessage(fieldNum, data)
encodeMessage(fieldNum, data) ==
    encodeVarint(BigIntOf(EncodeTag(fieldNum, 2)))
        \o encodeVarint(BigIntOf(Len(data))) \o data

\* encodeVarintField(fieldNum, value), value a BigInt
encodeVarintField(fieldNum, value) ==
    encodeVarint(BigIntOf(EncodeTag(fieldNum, 0))) \o encodeVarint(value)

\* buf[p] & mask reads: an index outside the buffer gives undefined, and
\* undefined & mask is 0
ByteAt(buf, p) == IF p >= 0 /\ p < Len(buf) THEN buf[p + 1] ELSE 0

\* buf.subarray(start, end): a negative index counts from the end, both are
\* clamped to the buffer, and an end before the start gives an empty Buffer
ClampIndex(buf, i) ==
    IF i < 0 THEN (IF i + Len(buf) < 0 THEN 0 ELSE i + Len(buf))
    ELSE IF i > Len(buf) THEN Len(buf) ELSE i

Subarray(buf, start, end) ==
    SubSeq(buf, ClampIndex(buf, start) + 1, ClampIndex(buf, end))

\* while (p < buf.length) { const b = buf[p++]; x |= (b & 0x7f) << shift;
\*   shift += 7; if (!(b & 0x80)) break; }   -- the int32 loops (tag, l)
RECURSIVE ReadVarint32(_, _, _, _)
ReadVarint32(buf, p, x, shift) ==
    IF ~(p < Len(buf)) THEN [p |-> p, value |-> x]
    ELSE LET b == ByteAt(buf, p)
             y == Or32(x, Shl32(b % 128, shift)) IN
         IF b < 128 THEN [p |-> p + 1, value |-> y]
         ELSE ReadVarint32(buf, p + 1, y, shift + 7)

\* the same loop on BigInt (v, sh): digit k of v is the k-th byte & 0x7f
RECURSIVE ReadVarintBig(_, _, _)
ReadVarintBig(buf, p, digits) ==
    IF ~(p < Len(buf)) THEN [p |-> p, value |-> BigIntOfDigits(digits)]
    ELSE LET b == ByteAt(buf, p)
             more == Append(digits, b % 128) IN
         IF b < 128 THEN [p |-> p + 1, value |-> BigIntOfDigits(more)]
         ELSE ReadVarintBig(buf, p + 1, more)

\* { field, wire, value }: value is a Buffer (bytes) or a bigint (big)
ProtoField(field, wire, bytes, big) ==
    [field |-> field, wire |-> wire, isBuffer |-> wire # 0,
     bytes |-> bytes, big |-> big]

\* One turn of the outer loop of parseProtoFields at position p (the test
\* p < buf.length has passed): the position after it, the fields it pushes
\* and whether it leaves the loop with break.
ParseIteration(buf, p) ==
    LET t == ReadVarint32(buf, p, 0, 0)
        wire == And7(t.value)
        field == Sar3(t.value) IN
    IF t.p = p THEN [p |-> t.p, push |-> <<>>, break |-> TRUE]
    ELSE IF wire = 2 THEN
        LET l == ReadVarint32(buf, t.p, 0, 0) IN
        IF l.p + l.value > Len(buf)
        THEN [p |-> l.p, push |-> <<>>, break |-> TRUE]
        ELSE [p |-> l.p + l.value,
              push |-> <<ProtoField(field, wire,
                             Subarray(buf, l.p, l.p + l.value), BigIntOf(0))>>,
              break |-> FALSE]
    ELSE IF wire = 0 THEN
        LET v == ReadVarintBig(buf, t.p, <<>>) IN
        [p |-> v.p, push |-> <<ProtoField(field, wire, <<>>, v.value)>>,
         break |-> FALSE]
    ELSE IF wire = 1 THEN
        [p |-> t.p + 8,
         push |-> <<ProtoField(field, wire, Subarray(buf, t.p, t.p + 8), BigIntOf(0))>>,
         break |-> FALSE]
    ELSE IF wire = 5 THEN
        [p |-> t.p + 4,
         push |-> <<ProtoField(field, wire, Subarray(buf, t.p, t.p + 4), BigIntOf(0))>>,
         break |-> FALSE]
    ELSE [p |-> t.p, push |-> <<>>, break |-> TRUE]

\* the outer loop from position p on
RECURSIVE ParseFrom(_, _, _)
ParseFrom(buf, p, fields) ==
    IF ~(p < Len(buf)) THEN fields
    ELSE LET it == ParseIteration(buf, p) IN
         IF it.break THEN fields \o it.push
         ELSE ParseFrom(buf, it.p, fields \o it.push)

\* parseProtoFields(buf), for a buffer on which the loop ends
parseProtoFields(buf) == ParseFrom(buf, 0, <<>>)

\* field numbers that are followed: one- and two-byte tags, the largest
\* number whose tag stays below 2^31, and the numbers from 2^28 on
CodecFieldNumbers == {1, 15, 16, 35, 2047, 2048, 268435455, 268435456, 536870911}

\* byte strings that are followed ("", "h", "hi" and three arbitrary bytes)
CodecByteStrings == {<<>>, <<104>>, <<104, 105>>, <<0, 255, 128>>}

\* varint values that are followed, as base-128 digits: 0, 1, 127, 128,
\* 300, 2^31 - 1, 2^32, 2^53 and 2^63 - 1
CodecVarintValues ==
    {<<>>, <<1>>, <<127>>, <<0, 1>>, <<44, 2>>, <<127, 127, 127, 127, 7>>,
     <<0, 0, 0, 0, 16>>, <<0, 0, 0, 0, 0, 0, 0, 16>>,
     <<127, 127, 127, 127, 127, 127, 127, 127, 127>>}

CodecInputs ==
    {[kind |-> "string", fieldNum |-> f, bytes |-> s, value |-> <<>>] :
        f \in CodecFieldNumbers, s \in CodecByteStrings}
    \cup {[kind |-> "varint", fieldNum |-> f, bytes |-> <<>>, value |-> v] :
        f \in {1, 4, 16}, v \in CodecVarintValues}

CodecInit ==
    /\ Idle
    /\ probe \in {[fn |-> "roundTrip", in |-> in, applied |-> FALSE, out |-> <<>>] :
                     in \in CodecInputs}

\* the encoder's number[] is written to the wire (Buffer.from) and the
\* bytes are scanned by parseProtoFields
ApplyRoundTrip ==
    /\ probe.fn = "roundTrip"
    /\ ~probe.applied
    /\ LET encoded == IF probe.in.kind = "string"
                      THEN encodeString(probe.in.fieldNum, probe.in.bytes)
                      ELSE encodeVarintField(probe.in.fieldNum,
                                             BigIntOfDigits(probe.in.value)) IN
       probe' = [probe EXCEPT !.applied = TRUE,
                              !.out = parseProtoFields(ToBuffer(encoded))]
    /\ UNCHANGED <<clock, requestCounter, vendorNextId, pc, req, http, sse, closed,
                   gen, client>>

CodecNext == ApplyRoundTrip

CodecSpec == CodecInit /\ [][CodecNext]_vars

\* C23: for every field number in [1, 2^29) and every byte string, scanning
\* the output of encodeString gives exactly one field with that number,
\* wire type 2 and those bytes, and the varint written by encodeVarintField
\* for a value in [0, 2^63) is read back as the same value; the 32-bit shift
\* that builds the tag does not corrupt field numbers of 2^28 and above.
C23_EncodeDecodeRoundTrip ==
    (probe.fn = "roundTrip" /\ probe.applied) =>
        /\ Len(probe.out) = 1
        /\ probe.out[1].field = probe.in.fieldNum
        /\ probe.in.kind = "string" =>
              /\ probe.out[1].wire = 2
              /\ probe.out[1].bytes = probe.in.bytes
        /\ probe.in.kind = "varint" =>
              /\ probe.out[1].wire = 0
              /\ probe.out[1].big = BigIntOfDigits(probe.in.value)

(***************************************************************************)
(* The decoders, one loop turn at a time                                   *)
(***************************************************************************)

\* the loops are followed for this many pushed fields or frames
MaxPushed == 4

\* buf.readUInt32BE(i): the buffers followed are far shorter than 2^31
\* bytes, so a length of 2^31 or more is kept as 2^31 - 1
ReadUInt32BE(buf, i) ==
    IF ByteAt(buf, i) >= 128 THEN 2147483647
    ELSE ((ByteAt(buf, i) * 256 + ByteAt(buf, i + 1)) * 256
             + ByteAt(buf, i + 2)) * 256 + ByteAt(buf, i + 3)

\* decompressFrame(comp, data): no buffer followed holds a gzip member, so
\* with comp = 1 gunzipSync throws and the catch returns data
decompressFrame(comp, data) == data

\* One turn of the loop of decodeGrpcFrames at position pos (the test
\* pos + 5 <= buf.length has passed).
FrameIteration(buf, pos) ==
    LET comp == ByteAt(buf, pos)
        flen == ReadUInt32BE(buf, pos + 1) IN
    IF flen > Len(buf) - pos - 5
    THEN [pos |-> pos, push |-> <<>>, break |-> TRUE]
    ELSE [pos |-> pos + 5 + flen,
          push |-> <<decompressFrame(comp, Subarray(buf, pos + 5, pos + 5 + flen))>>,
          break |-> FALSE]

RECURSIVE FramesFrom(_, _, _)
FramesFrom(buf, pos, out) ==
    IF ~(pos + 5 <= Len(buf)) THEN out
    ELSE LET it == FrameIteration(buf, pos) IN
         IF it.break THEN out ELSE FramesFrom(buf, it.pos, out \o it.push)

\* decodeGrpcFrames(buf)
decodeGrpcFrames(buf) == FramesFrom(buf, 0, <<>>)

\* makeGrpcFrame(bytes) for a payload shorter than 256 bytes
makeGrpcFrame(bytes) == <<0, 0, 0, 0, Len(bytes)>> \o ToBuffer(bytes)

\* well-formed leading parts of a message, with the fields they hold
GoodMessages ==
    {[bytes |-> <<>>, fields |-> <<>>],
     [bytes |-> ToBuffer(encodeString(1, <<104>>)),
      fields |-> <<ProtoField(1, 2, <<104>>, BigIntOf(0))>>],
     [bytes |-> ToBuffer(encodeVarintField(4, BigIntOf(3))),
      fields |-> <<ProtoField(4, 0, <<>>, BigIntOf(3))>>],
     [bytes |-> ToBuffer(encodeVarintField(4, BigIntOf(3)) \o encodeString(1, <<>>)),
      fields |-> <<ProtoField(4, 0, <<>>, BigIntOf(3)),
                   ProtoField(1, 2, <<>>, BigIntOf(0))>>]}

\* malformed tails of a message: a tag varint, a value varint and a length
\* varint that end with the continuation bit set; a length that runs past
\* the end; a fixed64 and a fixed32 with too few bytes; the wire types 3, 4,
\* 6 and 7
MalformedTails ==
    {[kind |-> "truncated tag", bytes |-> <<136>>],
     [kind |-> "truncated value", bytes |-> <<8, 128>>],
     [kind |-> "truncated length", bytes |-> <<10, 129>>],
     [kind |-> "length past end", bytes |-> <<10, 5, 104>>],
     [kind |-> "truncated fixed64", bytes |-> <<9, 1, 2>>],
     [kind |-> "truncated fixed32", bytes |-> <<13, 1>>],
     [kind |-> "unknown wire type", bytes |-> <<11, 1>>],
     [kind |-> "unknown wire type", bytes |-> <<12>>],
     [kind |-> "unknown wire type", bytes |-> <<14, 0>>],
     [kind |-> "unknown wire type", bytes |-> <<15>>]}

\* a length-delimited field whose five-byte length varint reads, in int32
\* arithmetic, as -6: the length of its own tag and length bytes
NegativeLengthField == <<10, 250, 255, 255, 255, 15>>

\* well-formed leading frames of a response body, and tails whose header is
\* incomplete or declares more bytes than remain
GoodBodies ==
    {[bytes |-> <<>>, frames |-> <<>>],
     [bytes |-> makeGrpcFrame(<<8, 1>>), frames |-> <<(<<8, 1>>)>>],
     [bytes |-> <<1, 0, 0, 0, 1, 7>>, frames |-> <<(<<7>>)>>],
     [bytes |-> makeGrpcFrame(<<>>) \o makeGrpcFrame(<<8, 1>>),
      frames |-> <<(<<>>), (<<8, 1>>)>>]}

MalformedFrameTails ==
    {<<0, 0, 0>>, <<0, 0, 0, 0, 3, 8>>, <<0, 0, 0, 1, 0>>,
     <<0, 255, 255, 255, 255, 1>>, <<1, 0, 1, 0, 0, 8, 1>>}

ParseRun(kind, buf, expected) ==
    [fn |-> "parseProtoFields", kind |-> kind, buf |-> buf, expected |-> expected,
     p |-> 0, out |-> <<>>, running |-> TRUE]

FrameRun(kind, buf, expected) ==
    [fn |-> "decodeGrpcFrames", kind |-> kind, buf |-> buf, expected |-> expected,
     p |-> 0, out |-> <<>>, running |-> TRUE]

ParseInputs ==
    {ParseRun("well-formed", g.bytes, g.fields) : g \in GoodMessages}
    \cup {ParseRun(t.kind, g.bytes \o t.bytes, g.fields) :
             g \in GoodMessages, t \in MalformedTails}
    \cup {ParseRun("negative length", g.bytes \o NegativeLengthField, g.fields) :
             g \in GoodMessages}

FrameInputs ==
    {FrameRun("well-formed", g.bytes, g.frames) : g \in GoodBodies}
    \cup {FrameRun("frame past end", g.bytes \o t, g.frames) :
             g \in GoodBodies, t \in MalformedFrameTails}

DecoderInit == Idle /\ (probe \in ParseInputs \/ probe \in FrameInputs)

\* parseProtoFields: the test of the outer loop and, when it passes, one
\* turn of the loop
ParseTurn ==
    /\ probe.fn = "parseProtoFields"
    /\ probe.running
    /\ Len(probe.out) < MaxPushed
    /\ IF ~(probe.p < Len(probe.buf))
       THEN probe' = [probe EXCEPT !.running = FALSE]
       ELSE LET it == ParseIteration(probe.buf, probe.p) IN
            probe' = [probe EXCEPT !.p = it.p, !.out = @ \o it.push,
                                   !.running = ~it.break]
    /\ UNCHANGED <<clock, requestCounter, vendorNextId, pc, req, http, sse, closed,
                   gen, client>>

\* decodeGrpcFrames: the test of the loop and, when it passes, one turn
FrameTurn ==
    /\ probe.fn = "decodeGrpcFrames"
    /\ probe.running
    /\ Len(probe.out) < MaxPushed
    /\ IF ~(probe.p + 5 <= Len(probe.buf))
       THEN probe' = [probe EXCEPT !.running = FALSE]
       ELSE LET it == FrameIteration(probe.buf, probe.p) IN
            probe' = [probe EXCEPT !.p = it.pos, !.out = @ \o it.push,
                                   !.running = ~it.break]
    /\ UNCHANGED <<clock, requestCounter, vendorNextId, pc, req, http, sse, closed,
                   gen, client>>

DecoderNext == ParseTurn \/ FrameTurn

DecoderSpec == DecoderInit /\ [][DecoderNext]_vars

\* the decoder has returned
Returned == probe.fn \in {"parseProtoFields", "decodeGrpcFrames"} /\ ~probe.running

\* C24: on malformed input (a truncated varint, a declared length that runs
\* past the end of the buffer, a truncated fixed32 / fixed64, an unknown
\* wire type, a frame header declaring more bytes than remain)
\* parseProtoFields and decodeGrpcFrames stop and return exactly the fields
\* or frames that were completely decoded before the malformed part.
C24_MalformedInputReturnsDecodedPrefix ==
    (Returned /\ probe.kind \notin {"well-formed", "negative length"}) =>
        probe.out = probe.expected

\* C28: parseProtoFields terminates on every input buffer: each turn of its
\* loop moves the read position strictly forward, also when a length varint
\* decodes (through 32-bit integer arithmetic) to a negative or wrapped
\* value, and it returns no more fields than the buffer has bytes.
C28_ParseAlwaysAdvances ==
    [][(probe.fn = "parseProtoFields" /\ probe.running /\ probe.p < Len(probe.buf)
            /\ ParseTurn) =>
          /\ probe'.p > probe.p
          /\ Len(probe'.out) <= Len(probe.buf)]_vars

(***************************************************************************)
(* plugin/grpc-client.ts: extractPlannerResponse                           *)
(***************************************************************************)

\* the innermost loop: over the fields f3 of one CortexStepPlannerResponse,
\* in the order they are on the wire; a non-empty response (1) or
\* modified_response (8) replaces result
RECURSIVE ScanPlannerFields(_, _)
ScanPlannerFields(fields, result) ==
    IF fields = <<>> THEN result
    ELSE LET f3 == Head(fields)
             t == f3.bytes
             next == IF f3.isBuffer /\ f3.field \in {1, 8} /\ t # <<>>
                     THEN t ELSE result IN
         ScanPlannerFields(Tail(fields), next)

\* the loop over the fields f2 of one step: field 20 is the planner response
RECURSIVE ScanStepFields(_, _)
ScanStepFields(fields, result) ==
    IF fields = <<>> THEN result
    ELSE LET f2 == Head(fields)
             next == IF f2.field # 20 \/ ~f2.isBuffer THEN result
                     ELSE ScanPlannerFields(parseProtoFields(f2.bytes), result) IN
         ScanStepFields(Tail(fields), next)

\* the loop over the fields f1 of one frame: field 1 is a step
RECURSIVE ScanFrameFields(_, _)
ScanFrameFields(fields, result) ==
    IF fields = <<>> THEN result
    ELSE LET f1 == Head(fields)
             next == IF f1.field # 1 \/ ~f1.isBuffer THEN result
                     ELSE ScanStepFields(parseProtoFields(f1.bytes), result) IN
         ScanFrameFields(Tail(fields), next)

RECURSIVE ScanFrames(_, _)
ScanFrames(frames, result) ==
    IF frames = <<>> THEN result
    ELSE ScanFrames(Tail(frames),
                    ScanFrameFields(parseProtoFields(Head(frames)), result))

\* extractPlannerResponse(buf); '' is the empty text
extractPlannerResponse(buf) == ScanFrames(decodeGrpcFrames(buf), <<>>)

\* the texts of step k that are followed: "r<k>" for response, "m<k>" for
\* modified_response, or the empty string
ResponseText(k) == <<114, 48 + k>>
ModifiedText(k) == <<109, 48 + k>>

\* what the planner response of step k holds, in wire order: [field, text]
PlannerWireOrders(k) ==
    {<<>>,
     <<[field |-> 1, text |-> ResponseText(k)]>>,
     <<[field |-> 8, text |-> ModifiedText(k)]>>,
     <<[field |-> 1, text |-> ResponseText(k)], [field |-> 8, text |-> ModifiedText(k)]>>,
     <<[field |-> 8, text |-> ModifiedText(k)], [field |-> 1, text |-> ResponseText(k)]>>,
     <<[field |-> 1, text |-> <<>>], [field |-> 8, text |-> ModifiedText(k)]>>,
     <<[field |-> 1, text |-> ResponseText(k)], [field |-> 8, text |-> <<>>]>>,
     <<[field |-> 8, text |-> <<>>], [field |-> 1, text |-> <<>>]>>}

\* trajectories of up to MaxSteps steps
MaxSteps == 2
Trajectories ==
    UNION {{s \in [1..n -> UNION {PlannerWireOrders(k) : k \in 1..MaxSteps}] :
               \A k \in 1..n : s[k] \in PlannerWireOrders(k)} : n \in 0..MaxSteps}

RECURSIVE EncodePlannerFields(_)
EncodePlannerFields(entries) ==
    IF entries = <<>> THEN <<>>
    ELSE encodeString(Head(entries).field, Head(entries).text)
             \o EncodePlannerFields(Tail(entries))

\* GetCascadeTrajectoryStepsResponse: steps (1, repeated), each with a
\* planner_response (20)
RECURSIVE EncodeSteps(_)
EncodeSteps(steps) ==
    IF steps = <<>> THEN <<>>
    ELSE encodeMessage(1, encodeMessage(20, EncodePlannerFields(Head(steps))))
             \o EncodeSteps(Tail(steps))

\* the response body the vendor sends for a trajectory: one gRPC frame
TrajectoryBody(steps) == makeGrpcFrame(EncodeSteps(steps))

ExtractInit ==
    /\ Idle
    /\ probe \in {[fn |-> "extractPlannerResponse", in |-> steps,
                   applied |-> FALSE, out |-> <<>>] : steps \in Trajectories}

\* streamChatGenerator: const text = extractPlannerResponse(pollRes.buf)
ApplyExtract ==
    /\ probe.fn = "extractPlannerResponse"
    /\ ~probe.applied
    /\ probe' = [probe EXCEPT !.applied = TRUE,
                              !.out = extractPlannerResponse(TrajectoryBody(probe.in))]
    /\ UNCHANGED <<clock, requestCounter, vendorNextId, pc, req, http, sse, closed,
                   gen, client>>

ExtractNext == ApplyExtract

ExtractSpec == ExtractInit /\ [][ExtractNext]_vars

\* the non-empty texts a step holds under field number f
TextsOf(step, f) ==
    {step[i].text : i \in {j \in 1..Len(step) : step[j].field = f /\ step[j].text # <<>>}}

HasPlannerText(step) == TextsOf(step, 1) \cup TextsOf(step, 8) # {}

\* C25: extractPlannerResponse returns the text of the last step that has
\* any non-empty planner text; within a step that has both a non-empty
\* response (field 1) and a non-empty modified_response (field 8) it returns
\* modified_response, whatever order the two fields have on the wire; it
\* returns the empty string when no step has non-empty planner text.
C25_LastStepModifiedWins ==
    (probe.fn = "extractPlannerResponse" /\ probe.applied) =>
        LET steps == probe.in
            with == {k \in 1..Len(steps) : HasPlannerText(steps[k])} IN
        IF with = {} THEN probe.out = <<>>
        ELSE LET last == CHOOSE k \in with : \A j \in with : j <= k IN
             IF TextsOf(steps[last], 8) # {}
             THEN probe.out \in TextsOf(steps[last], 8)
             ELSE probe.out \in TextsOf(steps[last], 1)

(***************************************************************************)
(* plugin/auth.ts: the process-table reads of one getCredentials call      *)
(***************************************************************************)

\* the language-server processes the host can run (each with a csrf token,
\* a discoverable port and a --windsurf_version on its command line)
ServerProcesses == {"A", "B", "C"}

\* what getLanguageServerProcesses can return: the running language
\* servers, each once, in the order of the ps output
ProcessTables ==
    {t \in UNION {[1..n -> ServerProcesses] : n \in 0..Cardinality(ServerProcesses)} :
        \A i, j \in 1..Len(t) : i # j => t[i] # t[j]}

\* no process: the value was not read from any process
NoProcess == "none"

\* getCredentials in fetch, before its first property is evaluated
CredentialsRun(table) ==
    [fn |-> "getCredentials", table |-> table, at |-> "csrfToken",
     csrfToken |-> NoProcess, port |-> NoProcess, version |-> NoProcess]

ReadsInit == Idle /\ probe \in {CredentialsRun(t) : t \in ProcessTables}

\* csrfToken: getCSRFToken() -- processes[0].csrfToken of a fresh
\* getLanguageServerProcesses(), NOT_RUNNING when it is empty
ReadCsrfToken ==
    /\ probe.fn = "getCredentials" /\ probe.at = "csrfToken"
    /\ probe' = IF probe.table = <<>>
                THEN [probe EXCEPT !.at = "NOT_RUNNING"]
                ELSE [probe EXCEPT !.at = "port", !.csrfToken = probe.table[1]]
    /\ UNCHANGED <<clock, requestCounter, vendorNextId, pc, req, http, sse, closed,
                   gen, client>>

\* port: getPort() -- the port of processes[0] of another fresh
\* getLanguageServerProcesses()
ReadPort ==
    /\ probe.fn = "getCredentials" /\ probe.at = "port"
    /\ probe' = IF probe.table = <<>>
                THEN [probe EXCEPT !.at = "NOT_RUNNING"]
                ELSE [probe EXCEPT !.at = "version", !.port = probe.table[1]]
    /\ UNCHANGED <<clock, requestCounter, vendorNextId, pc, req, http, sse, closed,
                   gen, client>>

\* apiKey: getApiKey() reads no process; version: getWindsurfVersion() --
\* the --windsurf_version of processes[0] of a third fresh
\* getLanguageServerProcesses(), the built-in default when it is empty
ReadVersion ==
    /\ probe.fn = "getCredentials" /\ probe.at = "version"
    /\ probe' = [probe EXCEPT !.at = "returned",
                              !.version = IF probe.table = <<>> THEN NoProcess
                                          ELSE probe.table[1]]
    /\ UNCHANGED <<clock, requestCounter, vendorNextId, pc, req, http, sse, closed,
                   gen, client>>

\* between two reads a language server exits or a new one starts (anywhere
\* in the ps output)
ProcessTableChanges ==
    /\ probe.fn = "getCredentials"
    /\ probe.at \in {"port", "version"}
    /\ \E t \in ProcessTables :
          /\ \/ \E i \in 1..Len(probe.table) :
                   t = SubSeq(probe.table, 1, i - 1)
                         \o SubSeq(probe.table, i + 1, Len(probe.table))
             \/ \E i \in 1..Len(t) :
                   probe.table = SubSeq(t, 1, i - 1) \o SubSeq(t, i + 1, Len(t))
          /\ probe' = [probe EXCEPT !.table = t]
    /\ UNCHANGED <<clock, requestCounter, vendorNextId, pc, req, http, sse, closed,
                   gen, client>>

ReadsNext == ReadCsrfToken \/ ReadPort \/ ReadVersion \/ ProcessTableChanges

ReadsSpec == ReadsInit /\ [][ReadsNext]_vars

\* C26: the csrfToken, the port and the version of one Credentials record
\* returned by getCredentials belong to the same language-server process,
\* also when a process exits or starts between the process-table reads of
\* the call.
C26_RecordFromOneProcess ==
    (probe.fn = "getCredentials" /\ probe.at = "returned") =>
        /\ probe.port = probe.csrfToken
        /\ probe.version = probe.csrfToken

(***************************************************************************)
(* plugin.ts: the model a completion sends to the vendor                   *)
(***************************************************************************)

\* the four completion paths of server.ts
CompletionPaths == {"plain-stream", "plain-json", "tools-stream", "tools-json"}

\* const requestedModel = request.model || getDefaultModel(), on a model
\* string (<<>> is an absent or empty model)
RequestedModelString(model) == IF model = <<>> THEN <<getDefaultModel>> ELSE model

\* resolved.variant ? `${resolved.modelId}:${resolved.variant}` : resolved.modelId
EffectiveModel(resolved) ==
    IF resolved.variant \notin {Undefined, ""}
    THEN <<resolved.modelId, ":", resolved.variant>>
    ELSE <<resolved.modelId>>

\* models.ts enumToProtoName is a one-to-one map from enum values to names;
\* a name is kept as the enum value it stands for
enumToProtoName(enumValue) == [uid |-> Undefined, protoName |-> enumValue]

\* resolved.modelUid ?? enumToProtoName(resolved.enumValue)
ModelUidOf(resolved) ==
    IF resolved.modelUid # Undefined
    THEN [uid |-> resolved.modelUid, protoName |-> 0]
    ELSE enumToProtoName(resolved.enumValue)

\* streamChatGenerator({model, messages}): resolveModel(options.model) and
\* the requested_model_uid written into SendUserCascadeMessage
GeneratorModelUid(model) == ModelUidOf(resolveModel(model, Undefined))

\* createStreamingResponse / createNonStreamingResponse: the override of
\* providerOptions is resolved first and the generator gets "id:variant"
PlainPathModelUid(model, override) ==
    GeneratorModelUid(EffectiveModel(resolveModel(RequestedModelString(model), override)))

\* planToolCall -> runWindsurfOnce(credentials, model, prompt): the
\* generator gets request.model || getDefaultModel(); providerOptions is
\* not read
ToolPathModelUid(model, override) == GeneratorModelUid(RequestedModelString(model))

SentModelUid(path, model, override) ==
    IF path \in {"plain-stream", "plain-json"}
    THEN PlainPathModelUid(model, override)
    ELSE ToolPathModelUid(model, override)

NoModelUid == [uid |-> Undefined, protoName |-> 0]

SentInit ==
    /\ Idle
    /\ probe \in {[fn |-> "sentModel",
                   in |-> [path |-> p, model |-> m, override |-> o],
                   applied |-> FALSE, out |-> NoModelUid] :
                     p \in CompletionPaths, m \in ModelStrings \cup {<<>>},
                     o \in Overrides}

\* the completion reaches buildSendUserCascadeMessageRequest
ApplySentModel ==
    /\ probe.fn = "sentModel"
    /\ ~probe.applied
    /\ probe' = [probe EXCEPT !.applied = TRUE,
                              !.out = SentModelUid(probe.in.path, probe.in.model,
                                                   probe.in.override)]
    /\ UNCHANGED <<clock, requestCounter, vendorNextId, pc, req, http, sse, closed,
                   gen, client>>

SentNext == ApplySentModel

SentSpec == SentInit /\ [][SentNext]_vars

\* C27: a providerOptions.windsurf.variant override decides the variant of
\* the model sent to the vendor on every completion path: plain streaming,
\* plain non-streaming, tool-planned streaming and tool-planned
\* non-streaming all send the model_uid of resolveModel(request.model,
\* override), and resolving the re-joined "id:variant" string a second time
\* gives the same model as the first resolution.
C27_OverrideOnEveryPath ==
    (probe.fn = "sentModel" /\ probe.applied) =>
        LET first == resolveModel(RequestedModelString(probe.in.model),
                                  probe.in.override)
            second == resolveModel(EffectiveModel(first), Undefined) IN
        /\ probe.out = ModelUidOf(first)
        /\ second = first

\* C29: whenever a tool-planned response (streaming or not) has
\* finish_reason "tool_calls", its tool_calls list is non-empty and every
\* entry has a function name; a vendor reply whose tool_calls array is empty
\* or has no entry with a string name is not emitted as a tool-call
\* response.
C29_ToolCallsResponseHasCalls ==
    (probe.fn = "plan" /\ probe.out.applied) =>
        /\ probe.out.resp.finish = "tool_calls" =>
              /\ Len(probe.out.resp.tool_calls) > 0
              /\ \A i \in 1..Len(probe.out.resp.tool_calls) :
                    probe.out.resp.tool_calls[i].name # ""
        /\ probe.in.text \in {EmptyCallsJson, NamelessCallsJson} =>
              probe.out.resp.finish # "tool_calls"

\* the texts of the content chunks of a stream, in the order written
RECURSIVE ContentsWritten(_)
ContentsWritten(events) ==
    IF events = <<>> THEN <<>>
    ELSE IF Head(events).type = "chunk" /\ Head(events).finish = "null"
         THEN <<Head(events).content>> \o ContentsWritten(Tail(events))
         ELSE ContentsWritten(Tail(events))

\* the controller of every stream is closed at most once, exactly once when
\* start() has ended, never before; the content chunks of a plain stream
\* are the texts the generator yielded, in that order
C30_ControllerState ==
    \A h \in Handlers :
        /\ closed[h] <= 1
        /\ (pc[h] = "done" /\ http[h].kind = "sse") => closed[h] = 1
        /\ closed[h] = 1 => (pc[h] = "done" /\ http[h].kind = "sse")
        /\ PlainStream(req[h]) => ContentsWritten(sse[h]) = gen[h].chunks

\* a step writes to at most one stream, only appends to it, is a step of
\* the handler that owns the stream, and writes nothing once the controller
\* is closed
C30_ControllerStep ==
    \A h \in Handlers :
        /\ closed[h] = 1 => (sse'[h] = sse[h] /\ closed'[h] = 1)
        /\ sse'[h] # sse[h] =>
              /\ Len(sse'[h]) > Len(sse[h])
              /\ SubSeq(sse'[h], 1, Len(sse[h])) = sse[h]
              /\ pc'[h] # pc[h] \/ gen'[h] # gen[h]
              /\ \A g \in Handlers \ {h} :
                    sse'[g] = sse[g] /\ pc'[g] = pc[g] /\ gen'[g] = gen[g]

\* C30: on every path through createStreamingResponse and
\* handleToolPlanningStream (success, tool call, final answer, or an error
\* thrown by the Cascade client) the stream controller is closed exactly
\* once and nothing is enqueued after it has been closed; the chunks of one
\* response are written by a single writer in the order they were produced.
C30_ClosedOnceNothingAfter ==
    /\ []C30_ControllerState
    /\ [][C30_ControllerStep]_vars

\* one stream ended on an error thrown by the Cascade client and the other
\* on a tool call; each controller was closed once
C30_Witness ==
    \E h, g \in Handlers :
        /\ pc[h] = "done" /\ req[h].stream /\ closed[h] = 1
        /\ gen[h].err = "CONNECTION_FAILED"
        /\ sse[h][Len(sse[h])].type \in {"error", "done"}
        /\ pc[g] = "done" /\ req[g].stream /\ closed[g] = 1
        /\ UsesToolPlanner(req[g])
        /\ sse[g][1].finish = "tool_calls"

====
